---- MODULE Spec2Model ----
(***************************************************************************)
(* MODULR outfit recommender: the color harmony engine                     *)
(* (supabase/functions/server/color-engine.tsx) and the outfit generation  *)
(* engine (supabase/functions/server/index.tsx, "Outfit Generation         *)
(* Engine").                                                               *)
(*                                                                         *)
(* Conventions of the model                                                *)
(*  - a string that the code parses character by character (a hex color)   *)
(*    is a sequence of one-character strings;                              *)
(*  - a JavaScript number that is not an integer is an exact fraction      *)
(*    [n |-> numerator, d |-> denominator] (d > 0); the comparisons of the *)
(*    code are made on the exact values;                                   *)
(*  - a score is an integer number of thousandths (0.5 is 500): every      *)
(*    score of the code is a sum of multiples of 0.025;                    *)
(*  - an optional value (layer?: ClothingItem) is a sequence of length 0   *)
(*    or 1.                                                                *)
(***************************************************************************)
EXTENDS Integers, Sequences, FiniteSets, TLC

Abs(x) == IF x < 0 THEN -x ELSE x

Min(a, b) == IF a < b THEN a ELSE b

Max(a, b) == IF a > b THEN a ELSE b

\* x < p/q for a fraction x (q > 0); the division is exact when q divides x.d
LessThan(x, p, q) ==
  IF x.d % q = 0 THEN x.n < p * (x.d \div q) ELSE x.n * q < p * x.d

\* x > p/q for a fraction x (q > 0)
GreaterThan(x, p, q) ==
  IF x.d % q = 0 THEN x.n > p * (x.d \div q) ELSE x.n * q > p * x.d

\* |x - y| for two fractions
AbsDiff(x, y) ==
  IF x.d = y.d THEN [n |-> Abs(x.n - y.n), d |-> x.d]
  ELSE [n |-> Abs(x.n * y.d - y.n * x.d), d |-> x.d * y.d]

\* String.prototype.toLowerCase, on the occasion and tag strings of the model
toLowerCase(str) ==
  CASE str = "Formal" -> "formal"
    [] str = "FORMAL" -> "formal"
    [] str = "Work" -> "work"
    [] str = "WORK" -> "work"
    [] str = "Casual" -> "casual"
    [] str = "A@x.io" -> "a@x.io"
    [] OTHER -> str

(***************************************************************************)
(* Color model                                                             *)
(***************************************************************************)

\* the value of a character matched by [a-f\d] under the /i flag
HexValue ==
  [c \in {"0","1","2","3","4","5","6","7","8","9",
          "a","b","c","d","e","f","A","B","C","D","E","F"} |->
     CASE c = "0" -> 0 [] c = "1" -> 1 [] c = "2" -> 2 [] c = "3" -> 3
       [] c = "4" -> 4 [] c = "5" -> 5 [] c = "6" -> 6 [] c = "7" -> 7
       [] c = "8" -> 8 [] c = "9" -> 9
       [] c \in {"a", "A"} -> 10 [] c \in {"b", "B"} -> 11
       [] c \in {"c", "C"} -> 12 [] c \in {"d", "D"} -> 13
       [] c \in {"e", "E"} -> 14 [] c \in {"f", "F"} -> 15]

\* parseInt(s, 16) of a two-character match
parseInt16(hi, lo) == 16 * HexValue[hi] + HexValue[lo]

\* hexToRgb whose pattern lacks the closing $: characters may follow
hexToRgb_Unanchored(hex) ==
  LET digits == IF Len(hex) > 0 /\ hex[1] = "#" THEN Tail(hex) ELSE hex
      result == /\ Len(digits) >= 6
                /\ \A i \in 1..6 : digits[i] \in DOMAIN HexValue
  IN  IF result
        THEN [r |-> parseInt16(digits[1], digits[2]),
              g |-> parseInt16(digits[3], digits[4]),
              b |-> parseInt16(digits[5], digits[6])]
        ELSE [r |-> 0, g |-> 0, b |-> 0]

\* /^#?([a-f\d]{2})([a-f\d]{2})([a-f\d]{2})$/i.exec(hex), black when no match
hexToRgb(hex) ==
  LET digits == IF Len(hex) > 0 /\ hex[1] = "#" THEN Tail(hex) ELSE hex
      result == /\ Len(digits) = 6
                /\ \A i \in 1..6 : digits[i] \in DOMAIN HexValue
  IN  IF result
        THEN [r |-> parseInt16(digits[1], digits[2]),
              g |-> parseInt16(digits[3], digits[4]),
              b |-> parseInt16(digits[5], digits[6])]
        ELSE [r |-> 0, g |-> 0, b |-> 0]

\* Math.round(p/q), q > 0: the nearest integer, a half rounded up
MathRound(p, q) == (2 * p + q) \div (2 * q)

\* rgbToHsv without "if (h < 0) h += 360"
rgbToHsv_NoWrap(rgb) ==
  LET r == rgb.r
      g == rgb.g
      b == rgb.b
      max == Max(r, Max(g, b))
      min == Min(r, Min(g, b))
      diff == max - min
      h60 == IF diff = 0 THEN 0
             ELSE IF max = r THEN MathRound(60 * (g - b), diff)
             ELSE IF max = g THEN MathRound(60 * (b - r) + 120 * diff, diff)
             ELSE MathRound(60 * (r - g) + 240 * diff, diff)
      s == IF max = 0 THEN [n |-> 0, d |-> 1] ELSE [n |-> 100 * diff, d |-> max]
      v == [n |-> 20 * max, d |-> 51]
  IN  [h |-> h60, s |-> s, v |-> v]

\* h in degrees (integer), s and v in percent (fractions). The code divides
\* the channels by 255 first; the quotients below are the same numbers.
rgbToHsv(rgb) ==
  LET r == rgb.r
      g == rgb.g
      b == rgb.b
      max == Max(r, Max(g, b))
      min == Min(r, Min(g, b))
      diff == max - min
      \* ((g - b) / diff) % 6 keeps the sign of (g - b) / diff, which is in [-1, 1]
      h60 == IF diff = 0 THEN 0
             ELSE IF max = r THEN MathRound(60 * (g - b), diff)
             ELSE IF max = g THEN MathRound(60 * (b - r) + 120 * diff, diff)
             ELSE MathRound(60 * (r - g) + 240 * diff, diff)
      h == IF h60 < 0 THEN h60 + 360 ELSE h60
      s == IF max = 0 THEN [n |-> 0, d |-> 1] ELSE [n |-> 100 * diff, d |-> max]
      v == [n |-> 20 * max, d |-> 51]
  IN  [h |-> h, s |-> s, v |-> v]

hexToHsv(hex) == rgbToHsv(hexToRgb(hex))

\* h * 60 is exactly half way between two integers
HalfDegree(rgb) ==
  LET r == rgb.r
      g == rgb.g
      b == rgb.b
      max == Max(r, Max(g, b))
      diff == max - Min(r, Min(g, b))
      x == IF max = r THEN g - b ELSE IF max = g THEN b - r ELSE r - g
  IN  diff # 0 /\ (120 * x) % diff = 0 /\ (60 * x) % diff # 0

\* The results of rgbToHsv in double arithmetic. The channels are divided by
\* 255 before the quotient is taken, so a product h * 60 that is exactly half
\* way between two integers may be computed just below the half, and
\* Math.round then returns the integer below; every other product rounds as
\* the exact one does.
rgbToHsvDouble(rgb) ==
  {rgbToHsv(rgb)} \cup
    IF HalfDegree(rgb)
    THEN {[rgbToHsv(rgb) EXCEPT !.h = (@ + 359) % 360]}
    ELSE {}

\* isNeutral whose navy band stops short of hue 240
isNeutral_OpenBand(hsv) ==
  IF LessThan(hsv.s, 20, 1) THEN TRUE
  ELSE IF hsv.h >= 210 /\ hsv.h < 240 /\ LessThan(hsv.s, 60, 1) THEN TRUE
  ELSE IF hsv.h >= 30 /\ hsv.h <= 50 /\ LessThan(hsv.s, 40, 1) THEN TRUE
  ELSE FALSE

isNeutral(hsv) ==
  IF LessThan(hsv.s, 20, 1) THEN TRUE
  ELSE IF hsv.h >= 210 /\ hsv.h <= 240 /\ LessThan(hsv.s, 60, 1) THEN TRUE
  ELSE IF hsv.h >= 30 /\ hsv.h <= 50 /\ LessThan(hsv.s, 40, 1) THEN TRUE
  ELSE FALSE

\* calculateContrast normalized by 100 instead of 200
calculateContrast_Per100(hsv1, hsv2) ==
  LET valueDiff == AbsDiff(hsv1.v, hsv2.v)
      saturationDiff == AbsDiff(hsv1.s, hsv2.s)
  IN  [n |-> valueDiff.n * saturationDiff.d + saturationDiff.n * valueDiff.d,
       d |-> 100 * valueDiff.d * saturationDiff.d]

\* (valueDiff + saturationDiff) / 200
calculateContrast(hsv1, hsv2) ==
  LET valueDiff == AbsDiff(hsv1.v, hsv2.v)
      saturationDiff == AbsDiff(hsv1.s, hsv2.s)
  IN  [n |-> valueDiff.n * saturationDiff.d + saturationDiff.n * valueDiff.d,
       d |-> 200 * valueDiff.d * saturationDiff.d]

\* areComplementary of opposite hues only
areComplementary_Opposite(hsv1, hsv2) ==
  LET hueDiff == Abs(hsv1.h - hsv2.h)
  IN  hueDiff >= 150 /\ hueDiff <= 210

areComplementary(hsv1, hsv2) ==
  LET hueDiff == Abs(hsv1.h - hsv2.h)
  IN  (hueDiff >= 150 /\ hueDiff <= 210) \/ (hueDiff >= 330 \/ hueDiff <= 30)

areAnalogous(hsv1, hsv2) ==
  LET hueDiff == Abs(hsv1.h - hsv2.h)
  IN  hueDiff <= 60

(***************************************************************************)
(* Color compatibility scorer                                              *)
(***************************************************************************)

\* one triggered rule: score += delta; reasons.push(reason)
Rule(delta, reason) == <<[delta |-> delta, reason |-> reason]>>

\* the rules of calculateColorCompatibility that trigger, in the order of
\* the code, each with the amount it adds to the score and its rationale
colorRules(topHsv, bottomHsv, shoeHsv, occasion) ==
  LET topNeutral == isNeutral(topHsv)
      bottomNeutral == isNeutral(bottomHsv)
      shoeNeutral == isNeutral(shoeHsv)
      contrast == calculateContrast(topHsv, bottomHsv)
      rule1 ==
        IF topNeutral /\ bottomNeutral /\ shoeNeutral
          THEN Rule(300, "All neutral colors create a sophisticated look")
        ELSE IF (topNeutral \/ bottomNeutral) /\ shoeNeutral
          THEN Rule(200, "Neutral shoes balance the outfit")
        ELSE <<>>
      rule2 ==
        IF LessThan(topHsv.v, 40, 1) /\ GreaterThan(bottomHsv.v, 60, 1)
          THEN Rule(150, "Dark top with light bottom creates visual balance")
        ELSE <<>>
      rule3 ==
        IF GreaterThan(topHsv.v, 60, 1) /\ LessThan(bottomHsv.v, 40, 1)
          THEN Rule(100, "Light top with dark bottom is a classic combination")
        ELSE <<>>
      rule4 ==
        IF areComplementary(topHsv, bottomHsv)
          THEN IF occasion = "casual" \/ occasion = "party"
                 THEN Rule(100, "Complementary colors add visual interest")
                 ELSE Rule(-100, "Complementary colors may be too bold for this occasion")
        ELSE <<>>
      rule5 ==
        IF areAnalogous(topHsv, bottomHsv) /\ ~topNeutral /\ ~bottomNeutral
          THEN Rule(150, "Analogous colors create harmony")
        ELSE <<>>
      rule6 ==
        IF occasion = "formal" \/ occasion = "work"
          THEN IF LessThan(contrast, 3, 10)
                 THEN Rule(150, "Low contrast is appropriate for formal settings")
               ELSE IF GreaterThan(contrast, 6, 10)
                 THEN Rule(-100, "High contrast may be too casual for this occasion")
               ELSE <<>>
        ELSE IF occasion = "casual" \/ occasion = "college" \/ occasion = "party"
          THEN IF GreaterThan(contrast, 4, 10) /\ LessThan(contrast, 7, 10)
                 THEN Rule(100, "Good contrast adds visual appeal")
               ELSE <<>>
        ELSE <<>>
      rule7 ==
        IF GreaterThan(topHsv.s, 60, 1) /\ GreaterThan(topHsv.v, 50, 1) /\ shoeNeutral
          THEN Rule(100, "Neutral footwear balances the bold top")
        ELSE <<>>
      rule8 ==
        IF /\ GreaterThan(topHsv.s, 60, 1)
           /\ GreaterThan(bottomHsv.s, 60, 1)
           /\ GreaterThan(shoeHsv.s, 60, 1)
          THEN Rule(-200, "Too many bold colors can be overwhelming")
        ELSE <<>>
      rule9 ==
        IF /\ Abs(topHsv.h - bottomHsv.h) < 30
           /\ GreaterThan(AbsDiff(topHsv.v, bottomHsv.v), 20, 1)
           /\ ~topNeutral
          THEN Rule(150, "Monochromatic palette creates cohesion")
        ELSE <<>>
  IN  rule1 \o rule2 \o rule3 \o rule4 \o rule5 \o rule6 \o rule7 \o rule8 \o rule9

\* addDeltas that starts from 0 instead of the base score
RECURSIVE addDeltas_NoBase(_, _)
addDeltas_NoBase(base, rules) ==
  IF rules = <<>> THEN 0
  ELSE rules[Len(rules)].delta + addDeltas_NoBase(base, SubSeq(rules, 1, Len(rules) - 1))

\* the score after every "score += delta" of the triggered rules, from base
RECURSIVE addDeltas(_, _)
addDeltas(base, rules) ==
  IF rules = <<>> THEN base
  ELSE addDeltas(base + Head(rules).delta, Tail(rules))

\* normalizeScore without the clamp
normalizeScore_Unclamped(score) == score

\* Math.max(0, Math.min(1, score))
normalizeScore(score) == Max(0, Min(1000, score))

\* Array.prototype.join
RECURSIVE join(_, _)
join(strings, separator) ==
  IF strings = <<>> THEN ""
  ELSE IF Len(strings) = 1 THEN Head(strings)
  ELSE Head(strings) \o separator \o join(Tail(strings), separator)

\* explanationOf without the fallback
explanationOf_NoFallback(reasons) == join(reasons, ". ")

\* reasons.join(". ") || "Standard color combination"
explanationOf(reasons) ==
  IF join(reasons, ". ") = "" THEN "Standard color combination"
  ELSE join(reasons, ". ")

\* calculateColorCompatibility that ignores the letter case of the occasion
calculateColorCompatibility_AnyCase(topColor, bottomColor, shoeColor, occasion) ==
  LET topHsv == hexToHsv(topColor)
      bottomHsv == hexToHsv(bottomColor)
      shoeHsv == hexToHsv(shoeColor)
      rules == colorRules(topHsv, bottomHsv, shoeHsv, toLowerCase(occasion))
      score == addDeltas(500, rules)
      reasons == [i \in DOMAIN rules |-> rules[i].reason]
  IN  [score |-> normalizeScore(score), explanation |-> explanationOf(reasons)]

calculateColorCompatibility(topColor, bottomColor, shoeColor, occasion) ==
  LET topHsv == hexToHsv(topColor)
      bottomHsv == hexToHsv(bottomColor)
      shoeHsv == hexToHsv(shoeColor)
      rules == colorRules(topHsv, bottomHsv, shoeHsv, occasion)
      score == addDeltas(500, rules)
      reasons == [i \in DOMAIN rules |-> rules[i].reason]
  IN  [score |-> normalizeScore(score), explanation |-> explanationOf(reasons)]

(***************************************************************************)
(* Footwear advisor                                                        *)
(***************************************************************************)

\* getShoeRecommendation that reads the top where the code reads the bottom,
\* and the bottom where it reads the top
getShoeRecommendation_Swapped(topColor, bottomColor, occasion) ==
  LET topHsv == hexToHsv(bottomColor)
      bottomHsv == hexToHsv(topColor)
  IN  IF occasion = "formal" \/ occasion = "work"
        THEN IF LessThan(bottomHsv.v, 30, 1)
               THEN "Black leather shoes for formal elegance"
             ELSE IF bottomHsv.h >= 20 /\ bottomHsv.h <= 40
               THEN "Brown leather shoes complement earth tones"
             ELSE "Dark leather shoes maintain professionalism"
      ELSE IF occasion = "casual" \/ occasion = "college"
        THEN IF isNeutral(topHsv) /\ isNeutral(bottomHsv)
               THEN "White sneakers add a fresh touch"
             ELSE IF GreaterThan(topHsv.s, 60, 1) \/ GreaterThan(bottomHsv.s, 60, 1)
               THEN "Neutral sneakers balance bold colors"
             ELSE "Casual sneakers complete the look"
      ELSE IF occasion = "party"
        THEN IF LessThan(topHsv.v, 40, 1) /\ LessThan(bottomHsv.v, 40, 1)
               THEN "Bold sneakers or boots add personality"
             ELSE "Statement footwear to stand out"
      ELSE "Versatile neutral footwear"

getShoeRecommendation(topColor, bottomColor, occasion) ==
  LET topHsv == hexToHsv(topColor)
      bottomHsv == hexToHsv(bottomColor)
  IN  IF occasion = "formal" \/ occasion = "work"
        THEN IF LessThan(bottomHsv.v, 30, 1)
               THEN "Black leather shoes for formal elegance"
             ELSE IF bottomHsv.h >= 20 /\ bottomHsv.h <= 40
               THEN "Brown leather shoes complement earth tones"
             ELSE "Dark leather shoes maintain professionalism"
      ELSE IF occasion = "casual" \/ occasion = "college"
        THEN IF isNeutral(topHsv) /\ isNeutral(bottomHsv)
               THEN "White sneakers add a fresh touch"
             ELSE IF GreaterThan(topHsv.s, 60, 1) \/ GreaterThan(bottomHsv.s, 60, 1)
               THEN "Neutral sneakers balance bold colors"
             ELSE "Casual sneakers complete the look"
      ELSE IF occasion = "party"
        THEN IF LessThan(topHsv.v, 40, 1) /\ LessThan(bottomHsv.v, 40, 1)
               THEN "Bold sneakers or boots add personality"
             ELSE "Statement footwear to stand out"
      ELSE "Versatile neutral footwear"

(***************************************************************************)
(* Outfit combination generator                                            *)
(***************************************************************************)

\* Array.prototype.includes
includes(array, element) == \E i \in DOMAIN array : array[i] = element

\* isItemSuitableForOccasion that takes any tagged item
isItemSuitableForOccasion_AnyTag(item, occasion) == item.occasionTags # <<>>

\* isItemSuitableForOccasion that compares with the occasion as it was given
isItemSuitableForOccasion_ExactOccasion(item, occasion) ==
  \E i \in DOMAIN item.occasionTags :
    toLowerCase(item.occasionTags[i]) = occasion

isItemSuitableForOccasion(item, occasion) ==
  LET occasionLower == toLowerCase(occasion)
  IN  \E i \in DOMAIN item.occasionTags :
        toLowerCase(item.occasionTags[i]) = occasionLower

\* getCategoryType whose layers list names no category of the catalog
getCategoryType_NoLayer(category) ==
  LET tops == <<"shirt", "tshirt">>
      bottoms == <<"trousers", "jeans">>
      footwear == <<"sneakers", "formal_shoes", "boots">>
      layers == <<"blazers">>
  IN  IF includes(tops, category) THEN "top"
      ELSE IF includes(bottoms, category) THEN "bottom"
      ELSE IF includes(footwear, category) THEN "footwear"
      ELSE IF includes(layers, category) THEN "layer"
      ELSE "unknown"

\* getCategoryType that falls through to "top"
getCategoryType_DefaultTop(category) ==
  LET tops == <<"shirt", "tshirt">>
      bottoms == <<"trousers", "jeans">>
      footwear == <<"sneakers", "formal_shoes", "boots">>
      layers == <<"blazer">>
  IN  IF includes(bottoms, category) THEN "bottom"
      ELSE IF includes(footwear, category) THEN "footwear"
      ELSE IF includes(layers, category) THEN "layer"
      ELSE "top"

getCategoryType(category) ==
  LET tops == <<"shirt", "tshirt">>
      bottoms == <<"trousers", "jeans">>
      footwear == <<"sneakers", "formal_shoes", "boots">>
      layers == <<"blazer">>
  IN  IF includes(tops, category) THEN "top"
      ELSE IF includes(bottoms, category) THEN "bottom"
      ELSE IF includes(footwear, category) THEN "footwear"
      ELSE IF includes(layers, category) THEN "layer"
      ELSE "unknown"

\* meetsOccasionRequirements without the tshirt rule
meetsOccasionRequirements_NoTshirtRule(top, bottom, footwear, occasion) ==
  LET occasionLower == toLowerCase(occasion)
  IN  IF occasionLower = "formal" /\ footwear.category # "formal_shoes" THEN FALSE
      ELSE IF occasionLower = "formal" /\ bottom.category = "jeans" THEN FALSE
      ELSE IF /\ occasionLower = "work"
              /\ footwear.category = "sneakers"
              /\ ~includes(footwear.occasionTags, "work") THEN FALSE
      ELSE TRUE

\* meetsOccasionRequirements that looks for the work tag ignoring case
meetsOccasionRequirements_WorkAnyCase(top, bottom, footwear, occasion) ==
  LET occasionLower == toLowerCase(occasion)
  IN  IF occasionLower = "formal" /\ footwear.category # "formal_shoes" THEN FALSE
      ELSE IF occasionLower = "formal" /\ top.category = "tshirt" THEN FALSE
      ELSE IF occasionLower = "formal" /\ bottom.category = "jeans" THEN FALSE
      ELSE IF /\ occasionLower = "work"
              /\ footwear.category = "sneakers"
              /\ ~(\E i \in DOMAIN footwear.occasionTags :
                     toLowerCase(footwear.occasionTags[i]) = "work") THEN FALSE
      ELSE TRUE

meetsOccasionRequirements(top, bottom, footwear, occasion) ==
  LET occasionLower == toLowerCase(occasion)
  IN  IF occasionLower = "formal" /\ footwear.category # "formal_shoes" THEN FALSE
      ELSE IF occasionLower = "formal" /\ top.category = "tshirt" THEN FALSE
      ELSE IF occasionLower = "formal" /\ bottom.category = "jeans" THEN FALSE
      ELSE IF /\ occasionLower = "work"
              /\ footwear.category = "sneakers"
              /\ ~includes(footwear.occasionTags, "work") THEN FALSE
      ELSE TRUE

calculateFitCompatibility(top, bottom) ==
  IF top.fit = bottom.fit THEN 300
  ELSE IF top.fit = "slim" /\ bottom.fit = "regular" THEN 250
  ELSE IF top.fit = "regular" /\ bottom.fit = "slim" THEN 200
  ELSE IF top.fit = "oversized" \/ bottom.fit = "oversized" THEN 100
  ELSE 150

\* calculateFabricCompatibility that adds up the rules that match
calculateFabricCompatibility_Sum(top, bottom, occasion) ==
  LET occasionLower == toLowerCase(occasion)
      formal == IF /\ occasionLower = "formal"
                   /\ (top.fabric = "cotton" \/ top.fabric = "wool")
                   /\ (bottom.fabric = "wool" \/ bottom.fabric = "cotton")
                  THEN 250 ELSE 0
      casual == IF /\ (occasionLower = "casual" \/ occasionLower = "college")
                   /\ bottom.fabric = "denim"
                  THEN 200 ELSE 0
      accents == IF top.fabric = "cotton" /\ bottom.fabric = "wool" THEN 200 ELSE 0
  IN  IF formal + casual + accents = 0 THEN 150 ELSE formal + casual + accents

calculateFabricCompatibility(top, bottom, occasion) ==
  LET occasionLower == toLowerCase(occasion)
  IN  IF /\ occasionLower = "formal"
         /\ (top.fabric = "cotton" \/ top.fabric = "wool")
         /\ (bottom.fabric = "wool" \/ bottom.fabric = "cotton") THEN 250
      ELSE IF /\ (occasionLower = "casual" \/ occasionLower = "college")
              /\ bottom.fabric = "denim" THEN 200
      ELSE IF top.fabric = "cotton" /\ bottom.fabric = "wool" THEN 200
      ELSE 150

\* items.filter(item => getCategoryType(item.category) === type)
filterByType(items, type) ==
  SelectSeq(items, LAMBDA item : getCategoryType(item.category) = type)

\* findLayer that takes the last layer that passes
findLayer_Last(layers, occasion) ==
  LET passing == {i \in DOMAIN layers : isItemSuitableForOccasion(layers[i], occasion)}
  IN  IF passing = {} THEN <<>>
      ELSE <<layers[CHOOSE i \in passing : \A j \in passing : i >= j]>>

\* findLayer that takes the first layer whatever its tags
findLayer_First(layers, occasion) ==
  IF layers = <<>> THEN <<>> ELSE <<layers[1]>>

\* layers.find(l => isItemSuitableForOccasion(l, occasion)): the first
\* element that passes, or none (undefined)
findLayer(layers, occasion) ==
  LET passing == {i \in DOMAIN layers : isItemSuitableForOccasion(layers[i], occasion)}
  IN  IF passing = {} THEN <<>>
      ELSE <<layers[CHOOSE i \in passing : \A j \in passing : i <= j]>>

\* the body of the innermost loop, past its "continue" guards: the record
\* pushed for (top, bottom, shoe)
combination(top, bottom, shoe, layers, occasion) ==
  LET colorResult == calculateColorCompatibility(
                       top.primaryColor, bottom.primaryColor, shoe.primaryColor, occasion)
      fitScore == calculateFitCompatibility(top, bottom)
      fabricScore == calculateFabricCompatibility(top, bottom, occasion)
      \* colorResult.score * 0.5 + fitScore + fabricScore
      compatibilityScore == (colorResult.score \div 2) + fitScore + fabricScore
      shoeRecommendation ==
        getShoeRecommendation(top.primaryColor, bottom.primaryColor, occasion)
      layer ==
        IF toLowerCase(occasion) = "formal" \/ toLowerCase(occasion) = "work"
          THEN findLayer(layers, occasion)
          ELSE <<>>
  IN  [top |-> top,
       bottom |-> bottom,
       footwear |-> shoe,
       layer |-> layer,
       compatibilityScore |-> compatibilityScore,
       colorScore |-> colorResult.score,
       explanation |-> colorResult.explanation,
       shoeRecommendation |-> shoeRecommendation]

\* for (const shoe of footwear): the records pushed for (top, bottom), in
\* the order of the array
RECURSIVE forFootwear(_, _, _, _, _)
forFootwear(top, bottom, footwear, layers, occasion) ==
  IF footwear = <<>> THEN <<>>
  ELSE LET shoe == Head(footwear)
       IN  (IF ~isItemSuitableForOccasion(shoe, occasion) THEN <<>>
            ELSE IF ~meetsOccasionRequirements(top, bottom, shoe, occasion) THEN <<>>
            ELSE <<combination(top, bottom, shoe, layers, occasion)>>)
           \o forFootwear(top, bottom, Tail(footwear), layers, occasion)

\* forBottoms that leaves the loop ("break") at a bottom that is not suitable
RECURSIVE forBottoms_Break(_, _, _, _, _)
forBottoms_Break(top, bottoms, footwear, layers, occasion) ==
  IF bottoms = <<>> THEN <<>>
  ELSE LET bottom == Head(bottoms)
       IN  IF ~isItemSuitableForOccasion(bottom, occasion) THEN <<>>
           ELSE forFootwear(top, bottom, footwear, layers, occasion)
                  \o forBottoms_Break(top, Tail(bottoms), footwear, layers, occasion)

\* for (const bottom of bottoms): the records pushed for top
RECURSIVE forBottoms(_, _, _, _, _)
forBottoms(top, bottoms, footwear, layers, occasion) ==
  IF bottoms = <<>> THEN <<>>
  ELSE LET bottom == Head(bottoms)
       IN  (IF ~isItemSuitableForOccasion(bottom, occasion) THEN <<>>
            ELSE forFootwear(top, bottom, footwear, layers, occasion))
           \o forBottoms(top, Tail(bottoms), footwear, layers, occasion)

\* for (const top of tops): every record pushed
RECURSIVE forTops(_, _, _, _, _)
forTops(tops, bottoms, footwear, layers, occasion) ==
  IF tops = <<>> THEN <<>>
  ELSE LET top == Head(tops)
       IN  (IF ~isItemSuitableForOccasion(top, occasion) THEN <<>>
            ELSE forBottoms(top, bottoms, footwear, layers, occasion))
           \o forTops(Tail(tops), bottoms, footwear, layers, occasion)

\* outfits after the three nested loops, in the order of the pushes
combinations(items, occasion) ==
  LET tops == filterByType(items, "top")
      bottoms == filterByType(items, "bottom")
      footwear == filterByType(items, "footwear")
      layers == filterByType(items, "layer")
  IN  forTops(tops, bottoms, footwear, layers, occasion)

\* compareFn with its operands exchanged
compareFn_Ascending(a, b) == a.compatibilityScore - b.compatibilityScore

\* the comparator given to sort: negative when a goes first
compareFn(a, b) == b.compatibilityScore - a.compatibilityScore

\* x put into a sorted array behind every element that does not compare
\* greater than it
RECURSIVE insertSorted(_, _)
insertSorted(sorted, x) ==
  IF sorted = <<>> THEN <<x>>
  ELSE IF compareFn(Head(sorted), x) <= 0
    THEN <<Head(sorted)>> \o insertSorted(Tail(sorted), x)
  ELSE <<x>> \o sorted

\* Array.prototype.sort with compareFn: a stable sort (ECMAScript 2019)
RECURSIVE sort(_)
sort(array) ==
  IF array = <<>> THEN <<>>
  ELSE insertSorted(sort(SubSeq(array, 1, Len(array) - 1)), array[Len(array)])

\* Array.prototype.slice(start, end): a negative index counts from the end
slice(array, start, end) ==
  LET len == Len(array)
      k == IF start < 0 THEN Max(len + start, 0) ELSE Min(start, len)
      final == IF end < 0 THEN Max(len + end, 0) ELSE Min(end, len)
  IN  SubSeq(array, k + 1, final)

\* generateOutfits that truncates before it sorts
generateOutfits_SliceFirst(items, occasion, maxOutfits) ==
  sort(slice(combinations(items, occasion), 0, maxOutfits))

generateOutfits(items, occasion, maxOutfits) ==
  slice(sort(combinations(items, occasion)), 0, maxOutfits)

(***************************************************************************)
(* Inputs: colors, items and catalogs                                      *)
(***************************************************************************)

\* hex color strings, a sequence of characters each
White == <<"#", "F", "F", "F", "F", "F", "F">>

Black == <<"#", "0", "0", "0", "0", "0", "0">>

Grey == <<"#", "7", "0", "7", "0", "7", "0">>

Navy == <<"#", "2", "C", "3", "E", "5", "0">>

PaleBlue == <<"#", "8", "0", "C", "0", "F", "F">>

SkyBlue == <<"#", "8", "7", "C", "E", "E", "B">>

Tan == <<"#", "8", "B", "7", "3", "5", "5">>

Brown == <<"#", "6", "5", "4", "3", "2", "1">>

Denim == <<"#", "1", "E", "3", "A", "5", "F">>

Red == <<"#", "F", "F", "0", "0", "0", "0">>

Cyan == <<"#", "0", "0", "F", "F", "F", "F">>

Maroon == <<"#", "8", "0", "0", "0", "0", "0">>

RedLowerCase == <<"#", "f", "f", "0", "0", "0", "0">>

Midnight == <<"#", "1", "6", "2", "4", "3", "2">>

ShortHex == <<"#", "F", "F", "F">>

EmptyColor == <<>>

\* the colors of the checks: the sample wardrobe's, greys and blues around
\* the neutral bands, saturated ones, and three strings hexToRgb handles
\* specially (lower case, three digits, empty)
Palette ==
  {White, Black, Grey, Navy, PaleBlue, SkyBlue, Tan, Brown, Denim, Red, Cyan,
   Maroon, Midnight, RedLowerCase, ShortHex, EmptyColor}

\* a ClothingItem without its id
Kind(category, primaryColor, fit, fabric, occasionTags) ==
  [category |-> category, primaryColor |-> primaryColor, fit |-> fit,
   fabric |-> fabric, occasionTags |-> occasionTags]

Shirt == Kind("shirt", White, "slim", "cotton", <<"formal", "work">>)

TShirt == Kind("tshirt", Black, "regular", "cotton", <<"casual", "Formal", "work">>)

Trousers == Kind("trousers", Navy, "slim", "wool", <<"formal", "work">>)

Jeans == Kind("jeans", Denim, "regular", "denim", <<"casual", "formal", "work">>)

FormalShoes == Kind("formal_shoes", Black, "regular", "leather", <<"formal", "work">>)

\* sneakers that match "work" only when the case is ignored
Sneakers == Kind("sneakers", White, "regular", "synthetic", <<"casual", "Work">>)

WorkSneakers == Kind("sneakers", White, "regular", "synthetic", <<"work", "casual">>)

Boots == Kind("boots", Brown, "regular", "leather", <<"casual", "formal">>)

\* a blazer that is not tagged for work
Blazer == Kind("blazer", Navy, "slim", "wool", <<"formal", "party">>)

\* an item whose category is none of the eight
Hat == Kind("hat", Black, "regular", "wool", <<"formal", "work", "casual">>)

WardrobeKinds ==
  {Shirt, TShirt, Trousers, Jeans, FormalShoes, Sneakers, WorkSneakers, Boots,
   Blazer, Hat}

RankKinds == {Shirt, TShirt, Trousers, Jeans, WorkSneakers}

\* the occasion labels of the glossary
AllOccasionTags == <<"formal", "work", "casual", "college", "party", "travel">>

\* a blazer for work (tagged "Work"), formal and casual
SportBlazer == Kind("blazer", Tan, "regular", "cotton", <<"Work", "formal", "casual">>)

\* a top, a bottom and a footwear item tagged for every occasion, and two
\* blazers with different tags
LayerKinds ==
  {Kind("shirt", White, "slim", "cotton", AllOccasionTags),
   Kind("trousers", Navy, "slim", "wool", AllOccasionTags),
   Kind("formal_shoes", Black, "regular", "leather", AllOccasionTags),
   Blazer, SportBlazer}

\* the occasions of the layer checks: with a layer (one in another letter
\* case) and without
LayerOccasions == {"formal", "Work", "party"}

\* items of every slot class, some of them barred by the formal or the work
\* gate, and two blazers with different tags
CaseKinds ==
  {Shirt, TShirt, Trousers, Jeans, FormalShoes, Sneakers, WorkSneakers, Blazer,
   SportBlazer}

\* the gated occasions and casual, each in several letter cases
CaseOccasions == {"formal", "Formal", "FORMAL", "work", "Work", "WORK", "casual", "Casual"}

\* the longest catalog of Spec and of SpecCase
MaxItems == 4

\* the longest catalog of SpecRank
MaxRankItems == 5

\* the longest catalog of SpecLayer
MaxLayerItems == 5

\* the largest maxOutfits of SpecRank
MaxOutfits == 2

\* maxOutfits = 10, the default parameter of generateOutfits
DefaultMaxOutfits == 10

\* the most calls of crypto.randomUUID() in a run of the server
MaxUuids == 5

\* the number of sampleItems that /seed-data stores
MaxSeedItems == 1

\* the longest string given to hexToRgb
MaxHexLen == 7

\* characters of the strings given to hexToRgb: the sign, a digit, a lower
\* and an upper case hex letter, and a letter that is no hex digit
HexAlphabet == {"#", "0", "a", "F", "g"}

\* the channel values of the rgbToHsv checks
ChannelSamples == {15 * k : k \in 0..17} \cup {1, 254}

\* hues at and next to the bounds of the two neutral bands
HueSamples == {0, 29, 30, 31, 49, 50, 51, 120, 209, 210, 211, 239, 240, 241, 359}

\* the catalogs of at most max items of the given kinds; the id of an item is
\* its place in the catalog
Catalogs(kinds, max) ==
  {[i \in DOMAIN catalog |-> [id |-> i] @@ catalog[i]] :
     catalog \in UNION {[1..n -> kinds] : n \in 0..max}}

Occasions == {"formal", "work", "casual"}

RankOccasions == {"work"}

\* the six occasions of the glossary, a case variant and an unknown one
ColorOccasions ==
  {"formal", "work", "casual", "college", "party", "travel", "Formal", "gym"}

\* the fabrics of the ClothingItem type
Fabrics == {"cotton", "denim", "wool", "leather", "synthetic"}

\* the occasions of the fabric checks: those of the color checks and two
\* more case variants
FabricOccasions == ColorOccasions \cup {"FORMAL", "Casual"}

\* one shirt, one trousers, one formal_shoes and one blazer, the first three
\* of the given colors, each tagged for every occasion
ColorCatalog(topColor, bottomColor, shoeColor) ==
  << [id |-> 1] @@ Kind("shirt", topColor, "slim", "cotton", AllOccasionTags),
     [id |-> 2] @@ Kind("trousers", bottomColor, "slim", "wool", AllOccasionTags),
     [id |-> 3] @@ Kind("formal_shoes", shoeColor, "regular", "leather", AllOccasionTags),
     [id |-> 4] @@ Kind("blazer", Navy, "slim", "wool", AllOccasionTags) >>

(***************************************************************************)
(* State: the arguments and the result of one call                         *)
(***************************************************************************)
VARIABLES
  pc,           \* "ready" before the call, "generated" or "scored" after it
  items,        \* the catalog given to generateOutfits
  occasion,     \* the occasion of the call
  maxOutfits,   \* the maxOutfits of the call
  outfits,      \* the array generateOutfits returned
  colors,       \* <<topColor, bottomColor, shoeColor>> given to the scorer
  colorResult,  \* <<>> or <<what calculateColorCompatibility returned>>
  arg,          \* the argument of a call of one of the color helpers
  ret,          \* <<>> or <<what that call returned>>
  kvStore,      \* the key-value store: a function from keys to values
  handlers,     \* for each connection, the request being handled on it
  uuids         \* the number of crypto.randomUUID() calls so far

serverVars == <<kvStore, handlers, uuids>>

callVars == <<pc, items, occasion, maxOutfits, outfits, colors, colorResult, arg, ret>>

vars ==
  <<pc, items, occasion, maxOutfits, outfits, colors, colorResult, arg, ret,
    kvStore, handlers, uuids>>

\* the connections on which requests arrive; each carries one request at a
\* time
Connections == {1, 2}

Idle == [op |-> "idle"]

\* the server before any request, with an empty store
ServerStart ==
  /\ kvStore = <<>>
  /\ handlers = [c \in Connections |-> Idle]
  /\ uuids = 0

\* no call of the generator or of a color helper is under way
NoCall ==
  /\ pc = "ready"
  /\ occasion = ""
  /\ maxOutfits = DefaultMaxOutfits
  /\ outfits = <<>>
  /\ colorResult = <<>>
  /\ ret = <<>>
  /\ items = <<>>
  /\ colors = <<>>
  /\ arg = <<>>

InitCall ==
  /\ pc = "ready"
  /\ occasion = ""
  /\ maxOutfits = DefaultMaxOutfits
  /\ outfits = <<>>
  /\ colorResult = <<>>
  /\ ret = <<>>
  /\ ServerStart

Init ==
  /\ InitCall
  /\ items \in Catalogs(WardrobeKinds, MaxItems)
  /\ colors = <<Black, Black, Black>>
  /\ arg = <<>>

InitRank ==
  /\ InitCall
  /\ items \in Catalogs(RankKinds, MaxRankItems)
  /\ colors = <<Black, Black, Black>>
  /\ arg = <<>>

InitColor ==
  /\ InitCall
  /\ colors \in Palette \X Palette \X Palette
  /\ items = ColorCatalog(colors[1], colors[2], colors[3])
  /\ arg = <<>>

InitCase ==
  /\ InitCall
  /\ items \in Catalogs(CaseKinds, MaxItems)
  /\ colors = <<Black, Black, Black>>
  /\ arg = <<>>

InitLayer ==
  /\ InitCall
  /\ items \in Catalogs(LayerKinds, MaxLayerItems)
  /\ colors = <<Black, Black, Black>>
  /\ arg = <<>>

\* a top and a bottom of every pair of fabrics, and an occasion
InitFabric ==
  /\ InitCall
  /\ items = <<>>
  /\ colors = <<Black, Black, Black>>
  /\ arg \in [top : {[fabric |-> f] : f \in Fabrics},
              bottom : {[fabric |-> f] : f \in Fabrics},
              occasion : FabricOccasions]

\* RGB triples with each channel at a multiple of 15 or next to an end of
\* the range
InitRgb ==
  /\ InitCall
  /\ items = <<>>
  /\ colors = <<Black, Black, Black>>
  /\ arg \in [r : ChannelSamples, g : ChannelSamples, b : ChannelSamples]

\* the strings of at most MaxHexLen characters of HexAlphabet
InitHex ==
  /\ InitCall
  /\ items = <<>>
  /\ colors = <<Black, Black, Black>>
  /\ arg \in UNION {[1..n -> HexAlphabet] : n \in 0..MaxHexLen}

\* HSV triples around the thresholds of isNeutral: saturation in steps of
\* half a percent
InitHsv ==
  /\ InitCall
  /\ items = <<>>
  /\ colors = <<Black, Black, Black>>
  /\ arg \in [h : HueSamples,
              s : {[n |-> k, d |-> 2] : k \in 0..200},
              v : {[n |-> k, d |-> 1] : k \in {0, 50, 100}}]

\* pairs of HSV colors: every hue against three hues, so that every hue
\* difference from 0 to 359 occurs
InitHues ==
  /\ InitCall
  /\ items = <<>>
  /\ colors = <<Black, Black, Black>>
  /\ arg \in {<<[h |-> h1, s |-> [n |-> 50, d |-> 1], v |-> [n |-> 50, d |-> 1]],
                 [h |-> h2, s |-> [n |-> 50, d |-> 1], v |-> [n |-> 50, d |-> 1]]>> :
                h1 \in 0..359, h2 \in {0, 180, 359}}

\* the colors of the palette, or a pair of HSV colors
InitComplementary == InitColor \/ InitHues

\* generateOutfits(items, occ, max)
Generate(occ, max) ==
  /\ pc = "ready"
  /\ pc' = "generated"
  /\ occasion' = occ
  /\ maxOutfits' = max
  /\ outfits' = generateOutfits(items, occ, max)
  /\ UNCHANGED <<items, colors, colorResult, arg, ret>>
  /\ UNCHANGED serverVars

\* calculateColorCompatibility(topColor, bottomColor, shoeColor, occ)
Score(occ) ==
  /\ pc = "ready"
  /\ pc' = "scored"
  /\ occasion' = occ
  /\ colorResult' = <<calculateColorCompatibility(colors[1], colors[2], colors[3], occ)>>
  /\ UNCHANGED <<items, maxOutfits, outfits, colors, arg, ret>>
  /\ UNCHANGED serverVars

\* hexToRgb(arg)
ParseHex ==
  /\ pc = "ready"
  /\ pc' = "parsed"
  /\ ret' = <<hexToRgb(arg)>>
  /\ UNCHANGED <<items, occasion, maxOutfits, outfits, colors, colorResult, arg>>
  /\ UNCHANGED serverVars

\* isNeutral(arg)
Classify ==
  /\ pc = "ready"
  /\ pc' = "classified"
  /\ ret' = <<isNeutral(arg)>>
  /\ UNCHANGED <<items, occasion, maxOutfits, outfits, colors, colorResult, arg>>
  /\ UNCHANGED serverVars

\* calculateFabricCompatibility(arg.top, arg.bottom, arg.occasion)
Fabric ==
  /\ pc = "ready"
  /\ pc' = "fabric"
  /\ ret' = <<calculateFabricCompatibility(arg.top, arg.bottom, arg.occasion)>>
  /\ UNCHANGED <<items, occasion, maxOutfits, outfits, colors, colorResult, arg>>
  /\ UNCHANGED serverVars

\* rgbToHsv(arg)
Convert ==
  /\ pc = "ready"
  /\ pc' = "converted"
  /\ \E hsv \in rgbToHsvDouble(arg) : ret' = <<hsv>>
  /\ UNCHANGED <<items, occasion, maxOutfits, outfits, colors, colorResult, arg>>
  /\ UNCHANGED serverVars

\* areComplementary(arg[1], arg[2])
Complement ==
  /\ pc = "ready"
  /\ arg # <<>>
  /\ pc' = "compared"
  /\ ret' = <<areComplementary(arg[1], arg[2])>>
  /\ UNCHANGED <<items, occasion, maxOutfits, outfits, colors, colorResult, arg>>
  /\ UNCHANGED serverVars

\* generateOutfits(items, occasion), where maxOutfits takes its default, and
\* generateOutfits(items, occasion, 1)
Next == \E occ \in Occasions, max \in {1, DefaultMaxOutfits} : Generate(occ, max)

NextRank ==
  \E occ \in RankOccasions, max \in (-1)..MaxOutfits : Generate(occ, max)

NextColor ==
  \/ \E occ \in ColorOccasions : Score(occ)
  \/ \E occ \in ColorOccasions : Generate(occ, DefaultMaxOutfits)

Spec == Init /\ [][Next]_vars

SpecRank == InitRank /\ [][NextRank]_vars

SpecColor == InitColor /\ [][NextColor]_vars

\* generateOutfits(items, occasion), where maxOutfits takes its default
NextLayer == \E occ \in LayerOccasions : Generate(occ, DefaultMaxOutfits)

SpecLayer == InitLayer /\ [][NextLayer]_vars

\* generateOutfits(items, occasion), where maxOutfits takes its default
NextCase == \E occ \in CaseOccasions : Generate(occ, DefaultMaxOutfits)

SpecCase == InitCase /\ [][NextCase]_vars

SpecHex == InitHex /\ [][ParseHex]_vars

SpecHsv == InitHsv /\ [][Classify]_vars

SpecFabric == InitFabric /\ [][Fabric]_vars

SpecRgb == InitRgb /\ [][Convert]_vars

\* areComplementary on the pair, and calculateColorCompatibility on the
\* colors of the palette
NextComplementary ==
  \/ Complement
  \/ arg = <<>> /\ \E occ \in ColorOccasions : Score(occ)

SpecComplementary == InitComplementary /\ [][NextComplementary]_vars

(***************************************************************************)
(* Key-value store (kv_store.tsx). A key is the sequence of the parts that *)
(* its colons separate: wardrobe:{userId}:{itemId} is                      *)
(* <<"wardrobe", userId, itemId>>; the ids are UUIDs and hold no colon. A  *)
(* prefix that ends with a colon, such as "user:", is the sequence of the  *)
(* parts before that colon.                                                *)
(***************************************************************************)

\* String.prototype.startsWith on keys
startsWith(key, prefix) ==
  Len(prefix) <= Len(key) /\ SubSeq(key, 1, Len(prefix)) = prefix

\* kv.get: <<value>>, or <<>> for a key that is not stored
get(kv, key) == IF key \in DOMAIN kv THEN <<kv[key]>> ELSE <<>>

\* kv.set
set(kv, key, value) ==
  [k \in DOMAIN kv \cup {key} |-> IF k = key THEN value ELSE kv[k]]

\* kv.del
del(kv, key) == [k \in DOMAIN kv \ {key} |-> kv[k]]

\* kv.getByPrefix: the values of the keys that start with prefix. The store
\* returns them in no stated order: this is the set of the arrays it may
\* return.
getByPrefix(kv, prefix) ==
  LET keys == {k \in DOMAIN kv : startsWith(k, prefix)}
      n == Cardinality(keys)
      orders == {o \in [1..n -> keys] : \A i, j \in 1..n : i # j => o[i] # o[j]}
  IN  {[i \in 1..n |-> kv[o[i]]] : o \in orders}

(***************************************************************************)
(* HTTP server: authentication, wardrobe, outfit generation                *)
(***************************************************************************)

\* the values crypto.randomUUID() returns, in the order of the calls
randomUUID(calls) ==
  <<"uuid-1", "uuid-2", "uuid-3", "uuid-4", "uuid-5", "uuid-6", "uuid-7",
    "uuid-8", "uuid-9">>[calls + 1]

\* verifyToken: the payload, or none (null) for an expired token; "past" and
\* "future" stand for payload.exp < Date.now() and its negation
verifyToken(token) ==
  IF token.exp = "past" THEN <<>>
  ELSE <<[userId |-> token.userId, email |-> token.email]>>

\* authenticateUser: the payload attached to the context, or none when the
\* middleware answers 401; header is <<>> or <<token>>
authenticateUser(header) ==
  IF header = <<>> THEN <<>> ELSE verifyToken(header[1])

\* the key of a wardrobe item, and the prefix of a user's items
wardrobeKey(userId, itemId) == <<"wardrobe", userId, itemId>>

wardrobePrefix(userId) == <<"wardrobe", userId>>

\* historyKey in the namespace of the wardrobe
historyKey_Wardrobe(userId, historyId) == <<"wardrobe", userId, historyId>>

historyKey(userId, historyId) == <<"outfit_history", userId, historyId>>

\* a response: c.json(body, status)
json(body, status) == [status |-> status, body |-> body]

\* the handler on connection c returns c.json(...)
Respond(c, response) ==
  handlers' = [handlers EXCEPT ![c] = [op |-> "respond", response |-> response]]

\* the response is sent and the connection is free for the next request
Send(c) ==
  /\ UNCHANGED callVars
  /\ handlers[c].op = "respond"
  /\ handlers' = [handlers EXCEPT ![c] = Idle]
  /\ UNCHANGED <<kvStore, uuids>>

\* a request answered 401 by authenticateUser
Unauthorized(c, header) ==
  /\ UNCHANGED callVars
  /\ handlers[c] = Idle
  /\ authenticateUser(header) = <<>>
  /\ Respond(c, json([error |-> "Unauthorized"], 401))
  /\ UNCHANGED <<kvStore, uuids>>

validCategories ==
  <<"shirt", "tshirt", "trousers", "jeans", "blazer", "sneakers", "formal_shoes",
    "boots">>

\* !category || !primaryColor || !fit || !fabric || !occasionTags, for a
\* body whose fields, when present, are not empty strings
missingRequiredFields(body) ==
  ~({"category", "primaryColor", "fit", "fabric", "occasionTags"} \subseteq DOMAIN body)

\* POST /wardrobe
PostWardrobe(c, header, body) ==
  /\ UNCHANGED callVars
  /\ handlers[c] = Idle
  /\ authenticateUser(header) # <<>>
  /\ LET userId == authenticateUser(header)[1].userId
     IN  IF missingRequiredFields(body)
           THEN /\ Respond(c, json([error |-> "Missing required fields"], 400))
                /\ UNCHANGED <<kvStore, uuids>>
         ELSE IF ~includes(validCategories, body.category)
           THEN /\ Respond(c, json([error |-> "Invalid category"], 400))
                /\ UNCHANGED <<kvStore, uuids>>
         ELSE /\ uuids < MaxUuids
              /\ LET itemId == randomUUID(uuids)
                     item == [id |-> itemId,
                              userId |-> userId,
                              category |-> body.category,
                              primaryColor |-> body.primaryColor,
                              fit |-> body.fit,
                              fabric |-> body.fabric,
                              occasionTags |-> body.occasionTags]
                 IN  /\ uuids' = uuids + 1
                     /\ kvStore' = set(kvStore, wardrobeKey(userId, itemId), item)
                     /\ Respond(c, json([success |-> TRUE, data |-> item], 200))

\* DELETE /wardrobe/:id up to "await kv.get"
DeleteRead(c, header, itemId) ==
  /\ UNCHANGED callVars
  /\ handlers[c] = Idle
  /\ authenticateUser(header) # <<>>
  /\ LET userId == authenticateUser(header)[1].userId
         item == get(kvStore, wardrobeKey(userId, itemId))
     IN  IF item = <<>>
           THEN Respond(c, json([error |-> "Item not found"], 404))
           ELSE /\ handlers' = [handlers EXCEPT ![c] =
                     [op |-> "delete", userId |-> userId, itemId |-> itemId]]
  /\ UNCHANGED <<kvStore, uuids>>

\* DELETE /wardrobe/:id from "await kv.del" on
DeleteWrite(c) ==
  /\ UNCHANGED callVars
  /\ handlers[c].op = "delete"
  /\ kvStore' = del(kvStore, wardrobeKey(handlers[c].userId, handlers[c].itemId))
  /\ Respond(c, json([success |-> TRUE, message |-> "Item deleted"], 200))
  /\ UNCHANGED uuids

\* updatedItem whose body fields come last
updatedItem_BodyLast(existingItem, body, itemId, userId) ==
  body @@ [id |-> itemId, userId |-> userId] @@ existingItem

\* { ...existingItem, ...body, id: itemId, userId, createdAt }
updatedItem(existingItem, body, itemId, userId) ==
  [id |-> itemId, userId |-> userId] @@ body @@ existingItem

\* PUT /wardrobe/:id up to "await kv.get"
PutRead(c, header, itemId, body) ==
  /\ UNCHANGED callVars
  /\ handlers[c] = Idle
  /\ authenticateUser(header) # <<>>
  /\ LET userId == authenticateUser(header)[1].userId
         existingItem == get(kvStore, wardrobeKey(userId, itemId))
     IN  IF existingItem = <<>>
           THEN Respond(c, json([error |-> "Item not found"], 404))
           ELSE /\ handlers' = [handlers EXCEPT ![c] =
                     [op |-> "put", userId |-> userId, itemId |-> itemId,
                      body |-> body, existingItem |-> existingItem[1]]]
  /\ UNCHANGED <<kvStore, uuids>>

\* PUT /wardrobe/:id from "await kv.set" on
PutWrite(c) ==
  /\ UNCHANGED callVars
  /\ handlers[c].op = "put"
  /\ LET h == handlers[c]
         item == updatedItem(h.existingItem, h.body, h.itemId, h.userId)
     IN  /\ kvStore' = set(kvStore, wardrobeKey(h.userId, h.itemId), item)
         /\ Respond(c, json([success |-> TRUE, data |-> item], 200))
  /\ UNCHANGED uuids

\* maxOutfits || 10, for maxOutfits <<>> (undefined) or <<n>>
orDefault(max) ==
  IF max = <<>> \/ max = <<0>> THEN DefaultMaxOutfits ELSE max[1]

\* POST /outfit/generate up to "await kv.getByPrefix"
GenerateRead(c, header, occ, max) ==
  /\ UNCHANGED callVars
  /\ handlers[c] = Idle
  /\ authenticateUser(header) # <<>>
  /\ LET userId == authenticateUser(header)[1].userId
     IN  IF occ = ""
           THEN Respond(c, json([error |-> "Occasion is required"], 400))
           ELSE /\ \E array \in getByPrefix(kvStore, wardrobePrefix(userId)) :
                     handlers' = [handlers EXCEPT ![c] =
                       [op |-> "generate", userId |-> userId, occasion |-> occ,
                        maxOutfits |-> max, items |-> array]]
  /\ UNCHANGED <<kvStore, uuids>>

\* GenerateCompute that reads the catalog again when it computes
GenerateCompute_ReadAgain(c) ==
  /\ UNCHANGED callVars
  /\ handlers[c].op = "generate"
  /\ LET h == handlers[c]
     IN  \E array \in getByPrefix(kvStore, wardrobePrefix(h.userId)) :
           LET result == generateOutfits(array, h.occasion, orDefault(h.maxOutfits))
           IN  /\ handlers' = [handlers EXCEPT ![c] =
                    [op |-> "generated", userId |-> h.userId, occasion |-> h.occasion,
                     items |-> h.items, outfits |-> result]]
               /\ UNCHANGED <<kvStore, uuids>>

\* POST /outfit/generate from the return of kv.getByPrefix to "await kv.set"
\* (or to the response, when nothing is saved)
GenerateCompute(c) ==
  /\ UNCHANGED callVars
  /\ handlers[c].op = "generate"
  /\ LET h == handlers[c]
         result == generateOutfits(h.items, h.occasion, orDefault(h.maxOutfits))
     IN  IF Len(h.items) = 0
           THEN /\ Respond(c, json([error |-> "No wardrobe items found"], 400))
                /\ UNCHANGED <<kvStore, uuids>>
         ELSE IF Len(result) = 0
           THEN /\ Respond(c, json([success |-> TRUE, data |-> <<>>], 200))
                /\ UNCHANGED <<kvStore, uuids>>
         ELSE /\ uuids < MaxUuids
              /\ uuids' = uuids + 1
              /\ kvStore' = set(kvStore, historyKey(h.userId, randomUUID(uuids)),
                                [occasion |-> h.occasion, outfitCount |-> Len(result)])
              /\ handlers' = [handlers EXCEPT ![c] =
                   [op |-> "generated", userId |-> h.userId, occasion |-> h.occasion,
                    items |-> h.items, outfits |-> result]]

\* POST /outfit/generate after "await kv.set"
GenerateRespond(c) ==
  /\ UNCHANGED callVars
  /\ handlers[c].op = "generated"
  /\ Respond(c, json([success |-> TRUE, data |-> handlers[c].outfits], 200))
  /\ UNCHANGED <<kvStore, uuids>>

\* the first MaxSeedItems of the sampleItems of /seed-data
sampleItems ==
  SubSeq(<< Kind("shirt", White, "slim", "cotton", <<"formal", "work">>),
            Kind("shirt", SkyBlue, "regular", "cotton", <<"casual", "work">>),
            Kind("tshirt", Black, "regular", "cotton", <<"casual", "college">>),
            Kind("tshirt", White, "oversized", "cotton", <<"casual", "college", "party">>),
            Kind("trousers", Navy, "slim", "wool", <<"formal", "work">>),
            Kind("jeans", Denim, "regular", "denim", <<"casual", "college">>),
            Kind("trousers", Tan, "regular", "cotton", <<"casual", "work">>),
            Kind("formal_shoes", Black, "regular", "leather", <<"formal", "work">>),
            Kind("sneakers", White, "regular", "synthetic", <<"casual", "college", "party">>),
            Kind("boots", Brown, "regular", "leather", <<"casual", "party">>),
            Kind("blazer", Navy, "slim", "wool", <<"formal", "work", "party">>) >>,
         1, MaxSeedItems)

\* POST /seed-data up to the loop
SeedStart(c, header) ==
  /\ UNCHANGED callVars
  /\ handlers[c] = Idle
  /\ authenticateUser(header) # <<>>
  /\ handlers' = [handlers EXCEPT ![c] =
       [op |-> "seed", userId |-> authenticateUser(header)[1].userId, created |-> 0]]
  /\ UNCHANGED <<kvStore, uuids>>

\* one turn of the loop of /seed-data, to its "await kv.set"
SeedStore(c) ==
  /\ UNCHANGED callVars
  /\ handlers[c].op = "seed"
  /\ handlers[c].created < Len(sampleItems)
  /\ uuids < MaxUuids
  /\ LET h == handlers[c]
         itemData == sampleItems[h.created + 1]
         itemId == randomUUID(uuids)
         item == [id |-> itemId, userId |-> h.userId] @@ itemData
     IN  /\ uuids' = uuids + 1
         /\ kvStore' = set(kvStore, wardrobeKey(h.userId, itemId), item)
         /\ handlers' = [handlers EXCEPT ![c].created = h.created + 1]

\* POST /seed-data after the loop
SeedRespond(c) ==
  /\ UNCHANGED callVars
  /\ handlers[c].op = "seed"
  /\ handlers[c].created = Len(sampleItems)
  /\ Respond(c, json([success |-> TRUE, seeded |-> handlers[c].created], 200))
  /\ UNCHANGED <<kvStore, uuids>>

\* the users of the requests, by the userId of their tokens
Users == {"user-1", "user-2"}

\* the Authorization headers of the requests: none, an expired token, and
\* a live token of each user
Headers ==
  {<<>>, <<[userId |-> "user-1", email |-> "a@x.io", exp |-> "past"]>>}
    \cup {<<[userId |-> u, email |-> "a@x.io", exp |-> "future"]>> : u \in Users}

\* bodies of POST /wardrobe: a valid item, an unknown category, and a body
\* without most fields
PostBodies == {Shirt, Hat, [category |-> "shirt"]}

\* bodies of PUT /wardrobe/:id: another color, and another owner and id
PutBodies ==
  {[primaryColor |-> Tan],
   [userId |-> "user-2", id |-> "uuid-0"]}

\* the :id of PUT and DELETE: the first item of the store, the first item
\* added after it, and an id never given out
ItemIds == {"uuid-1", "uuid-4", "uuid-0"}

\* the connection that carries the /wardrobe requests, and the one that
\* carries the /outfit/generate and /seed-data requests
WardrobeConnections == {1}

OutfitConnections == {2}

\* the store after user-1 has added a shirt, trousers and formal shoes, and
\* user-2 a shirt, with four POST /wardrobe requests
InitServer ==
  /\ NoCall
  /\ kvStore =
       LET item(n, u, body) == [id |-> randomUUID(n), userId |-> u] @@ body
       IN  set(set(set(set(<<>>,
             wardrobeKey("user-1", randomUUID(0)), item(0, "user-1", Shirt)),
             wardrobeKey("user-1", randomUUID(1)), item(1, "user-1", Trousers)),
             wardrobeKey("user-1", randomUUID(2)), item(2, "user-1", FormalShoes)),
             wardrobeKey("user-2", randomUUID(3)), item(3, "user-2", Shirt))
  /\ handlers = [c \in Connections |-> Idle]
  /\ uuids = 4

NextServer ==
  \/ \E c \in Connections :
       \/ \E header \in Headers : Unauthorized(c, header)
       \/ Send(c)
  \/ \E c \in WardrobeConnections :
       \/ \E header \in Headers, body \in PostBodies :
            PostWardrobe(c, header, body)
       \/ \E header \in Headers, itemId \in ItemIds : DeleteRead(c, header, itemId)
       \/ DeleteWrite(c)
       \/ \E header \in Headers, itemId \in ItemIds, body \in PutBodies :
            PutRead(c, header, itemId, body)
       \/ PutWrite(c)
  \/ \E c \in OutfitConnections :
       \/ \E header \in Headers, occ \in {"formal", ""}, max \in {<<>>, <<1>>} :
            GenerateRead(c, header, occ, max)
       \/ GenerateCompute(c)
       \/ GenerateRespond(c)
       \/ \E header \in Headers : SeedStart(c, header)
       \/ SeedStore(c)
       \/ SeedRespond(c)

SpecServer == InitServer /\ [][NextServer]_vars

\* the header of the requests of user-1
OwnerHeaders == {<<[userId |-> "user-1", email |-> "a@x.io", exp |-> "future"]>>}

\* bodies of PUT /wardrobe/:id: another color, and a category outside
\* validCategories
CategoryPutBodies == {[primaryColor |-> Tan], [category |-> "hat"]}

\* the :id of concurrent PUT and DELETE requests: the first item of the store
\* and the first item added after it
SharedItemIds == {"uuid-1", "uuid-5"}

\* the wardrobe and /seed-data requests of one user, on both connections at
\* once
NextWardrobe ==
  \E c \in Connections :
    \/ Send(c)
    \/ \E header \in OwnerHeaders, body \in PostBodies :
         PostWardrobe(c, header, body)
    \/ \E header \in OwnerHeaders, itemId \in SharedItemIds :
         DeleteRead(c, header, itemId)
    \/ DeleteWrite(c)
    \/ \E header \in OwnerHeaders, itemId \in SharedItemIds, body \in CategoryPutBodies :
         PutRead(c, header, itemId, body)
    \/ PutWrite(c)
    \/ \E header \in OwnerHeaders : SeedStart(c, header)
    \/ SeedStore(c)
    \/ SeedRespond(c)

SpecWardrobe == InitServer /\ [][NextWardrobe]_vars

(***************************************************************************)
(* Authentication module: registerUser                                     *)
(***************************************************************************)

\* the keys of a user record and of the email index, and the prefix "user:"
userKey(userId) == <<"user", userId>>

emailKey(email) == <<"user", "email", toLowerCase(email)>>

userPrefix == <<"user">>

\* hashPassword: the SHA-256 digest of the password, as a value that is
\* equal for equal passwords only
hashPassword(password) == [sha256 |-> password]

\* generateToken: the payload the token encodes; exp is seven days ahead
generateToken(userId, email) ==
  [userId |-> userId, email |-> email, exp |-> "future"]

\* existingUsers.some(u => u.email.toLowerCase() === email.toLowerCase()):
\* "true", "false", or "throws" when an element before the first match has
\* no email property (u.email is undefined and toLowerCase is read of it)
RECURSIVE userExists(_, _)
userExists(existingUsers, email) ==
  IF existingUsers = <<>> THEN "false"
  ELSE LET u == Head(existingUsers)
       IN  IF "email" \notin DOMAIN u THEN "throws"
           ELSE IF toLowerCase(u.email) = toLowerCase(email) THEN "true"
           ELSE userExists(Tail(existingUsers), email)

\* POST /auth/register and registerUser up to "await kv.getByPrefix"; a
\* password is the sequence of its characters
RegisterRead(c, email, password, name) ==
  /\ UNCHANGED callVars
  /\ handlers[c] = Idle
  /\ IF email = "" \/ password = <<>> \/ name = ""
       THEN Respond(c, json([error |-> "All fields are required"], 400))
     ELSE IF Len(password) < 6
       THEN Respond(c, json([error |-> "Password must be at least 6 characters"], 400))
     ELSE \E array \in getByPrefix(kvStore, userPrefix) :
            handlers' = [handlers EXCEPT ![c] =
              [op |-> "register", email |-> email, password |-> password,
               name |-> name, existingUsers |-> array]]
  /\ UNCHANGED <<kvStore, uuids>>

\* registerUser from the return of kv.getByPrefix to "await hashPassword";
\* an exception of registerUser is caught by the route, which answers 500
RegisterCheck(c) ==
  /\ UNCHANGED callVars
  /\ handlers[c].op = "register"
  /\ LET h == handlers[c]
         userExistsResult == userExists(h.existingUsers, h.email)
     IN  IF userExistsResult = "throws"
           THEN /\ Respond(c, json([error |-> "Registration failed"], 500))
                /\ UNCHANGED <<kvStore, uuids>>
         ELSE IF userExistsResult = "true"
           THEN /\ Respond(c, json([error |-> "User with this email already exists"], 400))
                /\ UNCHANGED <<kvStore, uuids>>
         ELSE /\ uuids < MaxUuids
              /\ uuids' = uuids + 1
              /\ handlers' = [handlers EXCEPT ![c] =
                   [op |-> "hash", email |-> h.email, password |-> h.password,
                    name |-> h.name, userId |-> randomUUID(uuids)]]
              /\ UNCHANGED kvStore

\* registerUser from the return of hashPassword to "await kv.set" of the
\* user record
RegisterSetUser(c) ==
  /\ UNCHANGED callVars
  /\ handlers[c].op = "hash"
  /\ LET h == handlers[c]
         newUser == [id |-> h.userId,
                     email |-> toLowerCase(h.email),
                     name |-> h.name,
                     passwordHash |-> hashPassword(h.password)]
     IN  /\ kvStore' = set(kvStore, userKey(h.userId), newUser)
         /\ handlers' = [handlers EXCEPT ![c] =
              [op |-> "index", email |-> h.email, name |-> h.name,
               userId |-> h.userId]]
  /\ UNCHANGED uuids

\* registerUser from "await kv.set" of the email index to the response of
\* the route; the index value is the string userId
RegisterSetIndex(c) ==
  /\ UNCHANGED callVars
  /\ handlers[c].op = "index"
  /\ LET h == handlers[c]
     IN  /\ kvStore' = set(kvStore, emailKey(h.email), [string |-> h.userId])
         /\ Respond(c, json([success |-> TRUE,
                             data |-> [token |-> generateToken(h.userId, h.email),
                                       userId |-> h.userId,
                                       email |-> h.email,
                                       name |-> h.name]], 200))
  /\ UNCHANGED uuids

\* the emails, passwords and names of the registration requests
Emails == {"a@x.io", "A@x.io", "b@x.io", ""}

Passwords == {<<"s", "e", "c", "r", "e", "t">>, <<"1", "2", "3", "4", "5">>, <<>>}

Names == {"Ann", ""}

InitAuth == NoCall /\ ServerStart

NextAuth ==
  \E c \in Connections :
    \/ \E email \in Emails, password \in Passwords, name \in Names :
         RegisterRead(c, email, password, name)
    \/ RegisterCheck(c)
    \/ RegisterSetUser(c)
    \/ RegisterSetIndex(c)
    \/ Send(c)

SpecAuth == InitAuth /\ [][NextAuth]_vars

(***************************************************************************)
(* Properties                                                              *)
(***************************************************************************)

\* the slot classes of the specification, by category
TopCategories == {"shirt", "tshirt"}

BottomCategories == {"trousers", "jeans"}

FootwearCategories == {"sneakers", "formal_shoes", "boots"}

LayerCategories == {"blazer"}

\* the item has a tag equal to the occasion, letter case ignored
HasTag(item, occ) ==
  \E i \in DOMAIN item.occasionTags :
    toLowerCase(item.occasionTags[i]) = toLowerCase(occ)

\* the items of the catalog of a slot class that are eligible for occ
Eligible(categories, occ) ==
  {i \in DOMAIN items : items[i].category \in categories /\ HasTag(items[i], occ)}

\* the place of an outfit in the enumeration: catalog places of its items
EnumKey(outfit) == <<outfit.top.id, outfit.bottom.id, outfit.footwear.id>>

LexLess(a, b) ==
  \/ a[1] < b[1]
  \/ a[1] = b[1] /\ a[2] < b[2]
  \/ a[1] = b[1] /\ a[2] = b[2] /\ a[3] < b[3]

\* C1: for occasion "formal" no returned outfit has a tshirt top, a jeans
\* bottom or footwear other than formal_shoes.
C1_FormalGate ==
  (pc = "generated" /\ occasion = "formal") =>
    \A i \in DOMAIN outfits :
      /\ outfits[i].top.category # "tshirt"
      /\ outfits[i].bottom.category # "jeans"
      /\ outfits[i].footwear.category = "formal_shoes"

\* a formal result with an outfit, from a catalog that also holds a tshirt,
\* a jeans or a boots item eligible for formal
C1_Witness ==
  /\ pc = "generated" /\ occasion = "formal" /\ outfits # <<>>
  /\ Eligible({"tshirt", "jeans", "boots"}, "formal") # {}

\* C2: for occasion "work" every returned outfit whose footwear is sneakers
\* has the exact string "work" among the tags of that footwear.
C2_WorkSneakers ==
  (pc = "generated" /\ occasion = "work") =>
    \A i \in DOMAIN outfits :
      outfits[i].footwear.category = "sneakers" =>
        \E t \in DOMAIN outfits[i].footwear.occasionTags :
          outfits[i].footwear.occasionTags[t] = "work"

\* a work result with sneakers, from a catalog that also holds sneakers
\* eligible for work only through "Work"
C2_Witness ==
  /\ pc = "generated" /\ occasion = "work"
  /\ \E i \in DOMAIN outfits : outfits[i].footwear.category = "sneakers"
  /\ \E i \in Eligible({"sneakers"}, "work") :
       \A t \in DOMAIN items[i].occasionTags : items[i].occasionTags[t] # "work"

\* C3: the returned array is ordered by compatibilityScore non-increasing,
\* and outfits of equal score keep their enumeration order (tops, then
\* bottoms, then footwear, each in catalog order).
C3_SortedStable ==
  pc = "generated" =>
    \A i, j \in DOMAIN outfits :
      i < j =>
        /\ outfits[i].compatibilityScore >= outfits[j].compatibilityScore
        /\ outfits[i].compatibilityScore = outfits[j].compatibilityScore =>
             LexLess(EnumKey(outfits[i]), EnumKey(outfits[j]))

\* a result with a tie, a strict decrease, and an outfit that was
\* enumerated after one it is returned before
C3_Witness ==
  /\ pc = "generated"
  /\ \E i, j \in DOMAIN outfits :
       i < j /\ outfits[i].compatibilityScore = outfits[j].compatibilityScore
  /\ \E i, j \in DOMAIN outfits :
       i < j /\ outfits[i].compatibilityScore > outfits[j].compatibilityScore
  /\ \E i, j \in DOMAIN outfits :
       i < j /\ LexLess(EnumKey(outfits[j]), EnumKey(outfits[i]))

\* C4: for every maxOutfits <= 0 generateOutfits returns the empty array.
C4_NonPositiveEmpty ==
  (pc = "generated" /\ maxOutfits <= 0) => outfits = <<>>

\* C5: for every maxOutfits >= 0 the result is the first
\* min(maxOutfits, n) entries of the ranked list of the n surviving
\* combinations: no longer than maxOutfits, and no omitted combination has
\* a strictly higher compatibilityScore than a returned one.
C5_TopN ==
  (pc = "generated" /\ maxOutfits >= 0) =>
    LET all == combinations(items, occasion)
        ranked == sort(all)
        n == Len(all)
        returned == {outfits[i] : i \in DOMAIN outfits}
    IN  /\ Len(outfits) = Min(maxOutfits, n)
        /\ Len(outfits) <= maxOutfits
        /\ \A i \in DOMAIN outfits : outfits[i] = ranked[i]
        /\ \A k \in DOMAIN all :
             all[k] \notin returned =>
               \A i \in DOMAIN outfits :
                 all[k].compatibilityScore <= outfits[i].compatibilityScore

\* a truncated result: some combination is left out, one of them with a
\* strictly lower score than a returned one
C5_Witness ==
  /\ pc = "generated" /\ maxOutfits >= 1
  /\ Len(outfits) = maxOutfits
  /\ \E k \in DOMAIN combinations(items, occasion) :
       /\ \A i \in DOMAIN outfits : outfits[i] # combinations(items, occasion)[k]
       /\ combinations(items, occasion)[k].compatibilityScore
            < outfits[Len(outfits)].compatibilityScore

\* C6: the score of calculateColorCompatibility, and so the colorScore of
\* every outfit, is between 0 and 1, for valid and malformed colors and for
\* recognized and unrecognized occasions.
C6_ColorScoreRange ==
  /\ pc = "scored" =>
       colorResult[1].score >= 0 /\ colorResult[1].score <= 1000
  /\ pc = "generated" =>
       \A i \in DOMAIN outfits :
         outfits[i].colorScore >= 0 /\ outfits[i].colorScore <= 1000

\* the sum of the base score and the deltas of the triggered rules
RuleSum(occ) ==
  addDeltas(500, colorRules(hexToHsv(colors[1]), hexToHsv(colors[2]),
                            hexToHsv(colors[3]), occ))

\* a call whose rules add up to more than 1, returned as 1
C6_Witness ==
  /\ pc = "scored"
  /\ RuleSum(occasion) > 1000
  /\ colorResult[1].score = 1000

\* a valid #RRGGBB string
ValidHex(hex) ==
  /\ Len(hex) = 7
  /\ hex[1] = "#"
  /\ \A i \in 2..7 : hex[i] \in DOMAIN HexValue

\* all three colors of the catalog of SpecColor are valid and neutral
AllNeutral == \A i \in 1..3 : ValidHex(colors[i]) /\ isNeutral(hexToHsv(colors[i]))

\* C7 as stated: with one eligible top, bottom, formal_shoes and blazer, all
\* of neutral colors, occasion "formal" gives a colorScore >= 0.8.
C7_Original ==
  (pc = "generated" /\ occasion = "formal" /\ AllNeutral) =>
    /\ Len(outfits) = 1
    /\ outfits[1].colorScore >= 800

\* C7 (amended): the colorScore is >= 0.7, and it is >= 0.8 when the top and
\* bottom colors are not complementary.
C7_NeutralFormalScore ==
  (pc = "generated" /\ occasion = "formal" /\ AllNeutral) =>
    /\ Len(outfits) = 1
    /\ outfits[1].colorScore >= 700
    /\ ~areComplementary(hexToHsv(colors[1]), hexToHsv(colors[2])) =>
         outfits[1].colorScore >= 800

\* neutral colors whose outfit gets exactly 0.7, the complementary penalty
\* taken from 0.8
C7_Witness ==
  /\ pc = "generated" /\ occasion = "formal" /\ AllNeutral
  /\ Len(outfits) = 1
  /\ outfits[1].colorScore = 700
  /\ areComplementary(hexToHsv(colors[1]), hexToHsv(colors[2]))

\* the catalog is one shirt, one trousers, one formal_shoes and one blazer,
\* each tagged for formal, and nothing else
OneOfEach ==
  /\ Len(items) = 4
  /\ \A c \in {"shirt", "trousers", "formal_shoes", "blazer"} :
       \E i \in DOMAIN items : items[i].category = c /\ HasTag(items[i], "formal")

\* C8: from one shirt, one trousers, one formal_shoes and one blazer, each
\* tagged for formal, occasion "formal" and maxOutfits >= 1 return exactly
\* one combination, whose layer is that blazer.
C8_SingleFormalOutfit ==
  (pc = "generated" /\ occasion = "formal" /\ maxOutfits >= 1 /\ OneOfEach) =>
    /\ Len(outfits) = 1
    /\ Len(outfits[1].layer) = 1
    /\ \E i \in DOMAIN items :
         items[i].category = "blazer" /\ outfits[1].layer[1] = items[i]
    /\ outfits[1].top.category = "shirt"
    /\ outfits[1].bottom.category = "trousers"
    /\ outfits[1].footwear.category = "formal_shoes"

\* such a catalog with the blazer first, and the one outfit returned
C8_Witness ==
  /\ pc = "generated" /\ occasion = "formal" /\ OneOfEach
  /\ items[1].category = "blazer"
  /\ Len(outfits) = 1 /\ outfits[1].layer = <<items[1]>>

\* C9: with no eligible top, or no eligible bottom, or no eligible footwear
\* for the occasion, generateOutfits returns the empty array.
C9_EmptySlot ==
  (/\ pc = "generated"
   /\ \/ Eligible(TopCategories, occasion) = {}
      \/ Eligible(BottomCategories, occasion) = {}
      \/ Eligible(FootwearCategories, occasion) = {}) =>
    outfits = <<>>

\* an empty result from a catalog with an eligible top and bottom, and with
\* footwear, none of it eligible
C9_Witness ==
  /\ pc = "generated" /\ outfits = <<>>
  /\ Eligible(TopCategories, occasion) # {}
  /\ Eligible(BottomCategories, occasion) # {}
  /\ Eligible(FootwearCategories, occasion) = {}
  /\ \E i \in DOMAIN items : items[i].category \in FootwearCategories

\* C10: in every returned outfit the top is a shirt or tshirt, the bottom
\* trousers or jeans, the footwear sneakers, formal_shoes or boots, and the
\* layer, when present, a blazer.
C10_SlotCategories ==
  pc = "generated" =>
    \A i \in DOMAIN outfits :
      /\ outfits[i].top.category \in TopCategories
      /\ outfits[i].bottom.category \in BottomCategories
      /\ outfits[i].footwear.category \in FootwearCategories
      /\ \A k \in DOMAIN outfits[i].layer :
           outfits[i].layer[k].category \in LayerCategories

\* an outfit from a catalog that holds an eligible item of none of the
\* eight categories
C10_Witness ==
  /\ pc = "generated"
  /\ outfits # <<>>
  /\ \E i \in DOMAIN items :
       /\ HasTag(items[i], occasion)
       /\ items[i].category \notin
            (TopCategories \cup BottomCategories \cup FootwearCategories
               \cup LayerCategories)

\* the items an outfit refers to
ItemsOf(outfit) ==
  {outfit.top, outfit.bottom, outfit.footwear}
    \cup {outfit.layer[k] : k \in DOMAIN outfit.layer}

\* C11: every item a returned outfit refers to (top, bottom, footwear, and
\* the layer when present) has an occasionTag equal to the requested occasion
\* when letter case is ignored.
C11_OnlyEligibleItems ==
  pc = "generated" =>
    \A i \in DOMAIN outfits :
      \A item \in ItemsOf(outfits[i]) :
        \E t \in DOMAIN item.occasionTags :
          toLowerCase(item.occasionTags[t]) = toLowerCase(occasion)

\* a work result with an outfit and no layer, from a catalog that holds a
\* blazer without the work tag
C11_Witness ==
  /\ pc = "generated" /\ occasion = "work"
  /\ outfits # <<>> /\ outfits[1].layer = <<>>
  /\ \E i \in DOMAIN items :
       items[i].category = "blazer" /\ ~HasTag(items[i], "work")

\* C12: for a catalog of valid items (each primaryColor a #RRGGBB string)
\* every returned outfit has a compatibilityScore between 0 and 1.
C12_CompatibilityRange ==
  (pc = "generated" /\ \A k \in DOMAIN items : ValidHex(items[k].primaryColor)) =>
    \A i \in DOMAIN outfits :
      outfits[i].compatibilityScore >= 0 /\ outfits[i].compatibilityScore <= 1000

\* the hex digits in the order of their values, in both letter cases
HexDigits ==
  << {"0"}, {"1"}, {"2"}, {"3"}, {"4"}, {"5"}, {"6"}, {"7"}, {"8"}, {"9"},
     {"a", "A"}, {"b", "B"}, {"c", "C"}, {"d", "D"}, {"e", "E"}, {"f", "F"} >>

IsHexDigit(c) == \E v \in DOMAIN HexDigits : c \in HexDigits[v]

\* the string is six hex digits, after a "#" (sign = 1) or not (sign = 0)
SixHexDigits(hex, sign) ==
  /\ Len(hex) = 6 + sign
  /\ sign = 1 => hex[1] = "#"
  /\ \A i \in (sign + 1)..(sign + 6) : IsHexDigit(hex[i])

\* the value of a hex digit: its place in HexDigits, counted from 0
DigitValue(c) == CHOOSE v \in 0..15 : c \in HexDigits[v + 1]

\* the value in base 16 of the two digits hi and lo
Base16(hi, lo) == 16 * DigitValue(hi) + DigitValue(lo)

\* C14: hexToRgb returns {r:0, g:0, b:0} for every string that is not six
\* hex digits after an optional "#", and for a matching string, of either
\* letter case, the three channels, integers in 0..255.
C14_HexToRgbTotal ==
  pc = "parsed" =>
    IF \E sign \in {0, 1} : SixHexDigits(arg, sign)
      THEN LET sign == Len(arg) - 6
           IN  /\ ret[1].r = Base16(arg[sign + 1], arg[sign + 2])
               /\ ret[1].g = Base16(arg[sign + 3], arg[sign + 4])
               /\ ret[1].b = Base16(arg[sign + 5], arg[sign + 6])
               /\ {ret[1].r, ret[1].g, ret[1].b} \subseteq 0..255
      ELSE ret[1] = [r |-> 0, g |-> 0, b |-> 0]

\* six hex digits followed by one more character, parsed as black
C14_Witness ==
  /\ pc = "parsed"
  /\ Len(arg) = 7 /\ \A i \in 1..7 : IsHexDigit(arg[i])
  /\ arg[1] # "0"
  /\ ret[1] = [r |-> 0, g |-> 0, b |-> 0]

\* C15: isNeutral(hsv) is true exactly when saturation < 20, or hue is in
\* [210, 240] with saturation < 60, or hue is in [30, 50] with saturation
\* < 40.
C15_NeutralBands ==
  pc = "classified" =>
    ret[1] = (\/ arg.s.n < 20 * arg.s.d
              \/ arg.h \in 210..240 /\ arg.s.n < 60 * arg.s.d
              \/ arg.h \in 30..50 /\ arg.s.n < 40 * arg.s.d)

\* hue 240 with a saturation of 59.5, classified neutral
C15_Witness ==
  /\ pc = "classified"
  /\ arg.h = 240 /\ arg.s = [n |-> 119, d |-> 2]
  /\ ret[1] = TRUE

\* x < p/q and x > p/q for a fraction x whose denominator q divides: the
\* percentages are compared with integers (q = 1) and the contrast, whose
\* denominator is a multiple of 200, with tenths (q = 10)
Below(x, p, q) == x.n < p * (x.d \div q)

Above(x, p, q) == x.n > p * (x.d \div q)

\* the rule table of the specification for the colors of the state and the
\* occasion occ: for each rule whether it triggers, its delta (in
\* thousandths) and its rationale
RuleTable(occ) ==
  LET top == hexToHsv(colors[1])
      bottom == hexToHsv(colors[2])
      shoe == hexToHsv(colors[3])
      contrast == calculateContrast(top, bottom)
      valueGap == IF top.v.n >= bottom.v.n THEN top.v.n - bottom.v.n
                  ELSE bottom.v.n - top.v.n
      Row(on, delta, reason) == [on |-> on, delta |-> delta, reason |-> reason]
  IN  << Row(isNeutral(top) /\ isNeutral(bottom) /\ isNeutral(shoe),
             300, "All neutral colors create a sophisticated look"),
         Row(/\ isNeutral(top) \/ isNeutral(bottom)
             /\ isNeutral(shoe)
             /\ ~(isNeutral(top) /\ isNeutral(bottom)),
             200, "Neutral shoes balance the outfit"),
         Row(Below(top.v, 40, 1) /\ Above(bottom.v, 60, 1),
             150, "Dark top with light bottom creates visual balance"),
         Row(Above(top.v, 60, 1) /\ Below(bottom.v, 40, 1),
             100, "Light top with dark bottom is a classic combination"),
         Row(areComplementary(top, bottom) /\ occ \in {"casual", "party"},
             100, "Complementary colors add visual interest"),
         Row(areComplementary(top, bottom) /\ occ \notin {"casual", "party"},
             -100, "Complementary colors may be too bold for this occasion"),
         Row(areAnalogous(top, bottom) /\ ~isNeutral(top) /\ ~isNeutral(bottom),
             150, "Analogous colors create harmony"),
         Row(occ \in {"formal", "work"} /\ Below(contrast, 3, 10),
             150, "Low contrast is appropriate for formal settings"),
         Row(occ \in {"formal", "work"} /\ Above(contrast, 6, 10),
             -100, "High contrast may be too casual for this occasion"),
         Row(/\ occ \in {"casual", "college", "party"}
             /\ Above(contrast, 4, 10) /\ Below(contrast, 7, 10),
             100, "Good contrast adds visual appeal"),
         Row(Above(top.s, 60, 1) /\ Above(top.v, 50, 1) /\ isNeutral(shoe),
             100, "Neutral footwear balances the bold top"),
         Row(Above(top.s, 60, 1) /\ Above(bottom.s, 60, 1) /\ Above(shoe.s, 60, 1),
             -200, "Too many bold colors can be overwhelming"),
         \* the two values have the denominator 51: a gap of 20 is 20 * 51
         Row(/\ top.h - bottom.h < 30 /\ bottom.h - top.h < 30
             /\ valueGap > 20 * 51
             /\ ~isNeutral(top),
             150, "Monochromatic palette creates cohesion") >>

\* the rows of the table that trigger, in table order
Triggered(occ) == SelectSeq(RuleTable(occ), LAMBDA row : row.on)

\* the sum of the deltas of the rows
RECURSIVE SumOfDeltas(_)
SumOfDeltas(rows) ==
  IF rows = <<>> THEN 0 ELSE Head(rows).delta + SumOfDeltas(Tail(rows))

\* C19: the score of calculateColorCompatibility is min(1, max(0, 0.5 + the
\* sum of the deltas of the rules of the table that trigger)), and the
\* all-neutral and the neutral-footwear-balance rule never both trigger.
C19_ScoreIsClampedSum ==
  pc = "scored" =>
    LET sum == 500 + SumOfDeltas(Triggered(occasion))
        clamped == IF sum > 1000 THEN 1000 ELSE IF sum < 0 THEN 0 ELSE sum
    IN  /\ colorResult[1].score = clamped
        /\ ~(RuleTable(occasion)[1].on /\ RuleTable(occasion)[2].on)

\* a call where the neutral-footwear-balance rule triggers with a penalty
\* and a bonus, the sum within the range
C19_Witness ==
  /\ pc = "scored"
  /\ RuleTable(occasion)[2].on
  /\ \E i, j \in DOMAIN Triggered(occasion) :
       Triggered(occasion)[i].delta < 0 /\ Triggered(occasion)[j].delta = 150
  /\ colorResult[1].score = 500 + SumOfDeltas(Triggered(occasion))

\* the sentences of the rows, each but the first after ". "
RECURSIVE Sentences(_)
Sentences(rows) ==
  IF Len(rows) = 1 THEN rows[1].reason
  ELSE Sentences(SubSeq(rows, 1, Len(rows) - 1)) \o ". " \o rows[Len(rows)].reason

\* C20: the explanation of calculateColorCompatibility is the rationale
\* sentences of exactly the rules that triggered, in table order, joined
\* with ". "; it is "Standard color combination" if and only if no rule
\* triggered.
C20_Explanation ==
  pc = "scored" =>
    /\ Triggered(occasion) # <<>> =>
         colorResult[1].explanation = Sentences(Triggered(occasion))
    /\ (colorResult[1].explanation = "Standard color combination")
         <=> Triggered(occasion) = <<>>

\* a call where no rule triggers, and the fallback is returned
C20_Witness ==
  /\ pc = "scored"
  /\ Triggered(occasion) = <<>>
  /\ colorResult[1].explanation = "Standard color combination"

\* the step is one of the POST /outfit/generate handler on connection c
IsGenerateStep(c) ==
  /\ handlers'[c] # handlers[c]
  /\ handlers[c].op \in {"generate", "generated"} \/ handlers'[c].op = "generate"

\* the keys the step adds to the store
NewKeys == DOMAIN kvStore' \ DOMAIN kvStore

\* C13: a step of the POST /outfit/generate handler removes no key and
\* changes no stored value, so no wardrobe key changes; it adds at most one
\* key, an outfit_history key of the requesting user, and adds it exactly in
\* the step that produced at least one outfit; the catalog array the handler
\* holds is the same after generateOutfits as before.
C13_GenerateWritesOnlyHistory ==
  [][\A c \in Connections :
       IsGenerateStep(c) =>
         /\ \A k \in DOMAIN kvStore : k \in DOMAIN kvStore' /\ kvStore'[k] = kvStore[k]
         /\ \A k \in NewKeys :
              /\ k[1] = "outfit_history"
              /\ k[2] = handlers[c].userId
         /\ Cardinality(NewKeys) =
              IF handlers'[c].op = "generated" /\ Len(handlers'[c].outfits) >= 1
                THEN 1 ELSE 0
         /\ handlers'[c].op = "generated" =>
              /\ Len(handlers'[c].outfits) >= 1
              /\ handlers'[c].items = handlers[c].items]_vars

\* a request that returned outfits has written its history record beside the
\* user's wardrobe
C13_Witness ==
  \E c \in Connections :
    /\ handlers[c].op = "generated"
    /\ Len(handlers[c].outfits) >= 1
    /\ \E k \in DOMAIN kvStore :
         k[1] = "outfit_history" /\ k[2] = handlers[c].userId
    /\ \E k \in DOMAIN kvStore :
         k[1] = "wardrobe" /\ k[2] = handlers[c].userId

\* the values stored under the wardrobe prefix of the user
StoredItems(kv, userId) ==
  {kv[k] : k \in {q \in DOMAIN kv : startsWith(q, wardrobePrefix(userId))}}

\* the elements of an array
Elements(array) == {array[i] : i \in DOMAIN array}

\* C16: the catalog of a POST /outfit/generate request is what the store
\* held under the user's prefix at the step that read it, the request keeps
\* that array to its end, and every item of every outfit it returns is an
\* element of that array, whatever wardrobe requests change the store after
\* the read.
C16_SingleRead ==
  [][\A c \in Connections :
       /\ handlers[c] = Idle /\ handlers'[c].op = "generate" =>
            /\ Elements(handlers'[c].items) = StoredItems(kvStore, handlers'[c].userId)
            /\ Len(handlers'[c].items) =
                 Cardinality(StoredItems(kvStore, handlers'[c].userId))
       /\ handlers[c].op = "generate" /\ handlers'[c].op = "generated" =>
            /\ handlers'[c].items = handlers[c].items
            /\ \A i \in DOMAIN handlers'[c].outfits :
                 ItemsOf(handlers'[c].outfits[i]) \subseteq Elements(handlers[c].items)
       /\ handlers[c].op = "generated" /\ handlers'[c] # handlers[c] =>
            /\ handlers'[c].op = "respond"
            /\ handlers'[c].response.body.data = handlers[c].outfits]_vars

\* outfits were computed from a catalog that the store no longer holds: an
\* item of an outfit was changed or deleted after the read
C16_Witness ==
  \E c \in Connections :
    /\ handlers[c].op = "generated"
    /\ \E i \in DOMAIN handlers[c].outfits :
         ~(ItemsOf(handlers[c].outfits[i])
             \subseteq StoredItems(kvStore, handlers[c].userId))

\* C17: every value stored under a key wardrobe:{u}:{i} has userId = u and
\* id = i, and the catalog a POST /outfit/generate request of user u reads,
\* and every item of the outfits it returns, has userId = u and is an item
\* of no other user's prefix.
C17_PrivateWardrobe ==
  /\ \A k \in DOMAIN kvStore :
       k[1] = "wardrobe" => kvStore[k].userId = k[2] /\ kvStore[k].id = k[3]
  /\ \A c \in Connections :
       /\ handlers[c].op \in {"generate", "generated"} =>
            \A item \in Elements(handlers[c].items) :
              /\ item.userId = handlers[c].userId
              /\ \A u \in Users \ {handlers[c].userId} :
                   item \notin StoredItems(kvStore, u)
       /\ handlers[c].op = "generated" =>
            \A i \in DOMAIN handlers[c].outfits :
              \A item \in ItemsOf(handlers[c].outfits[i]) :
                /\ item.userId = handlers[c].userId
                /\ \A u \in Users \ {handlers[c].userId} :
                     item \notin StoredItems(kvStore, u)

\* both users have items in the store, a PUT whose body named another owner
\* and id has been applied to the first item, and outfits are being returned
C17_Witness ==
  /\ \A u \in Users : StoredItems(kvStore, u) # {}
  /\ \E c \in WardrobeConnections :
       /\ handlers[c].op = "respond"
       /\ handlers[c].response.status = 200
       /\ "data" \in DOMAIN handlers[c].response.body
       /\ handlers[c].response.body.data.id = "uuid-1"
       /\ handlers[c].response.body.data.primaryColor # Tan
  /\ \E c \in OutfitConnections :
       handlers[c].op = "generated" /\ Len(handlers[c].outfits) >= 1

\* the user records among the values of an array of the store
UserRecords(array) == {u \in Elements(array) : "email" \in DOMAIN u}

\* C18: a registerUser call with non-empty email and name and a password of
\* at least 6 characters, for an email that no stored user has when letter
\* case is ignored, does not fail: it goes on to create the user, stores the
\* user under user:{id} with the lowercased email, then the index
\* user:email:{lowercased email} with that id, and answers success with a
\* token of that user; also when the store holds other users and indexes.
C18_RegisterSucceeds ==
  [][\A c \in Connections :
       /\ ( /\ handlers[c].op = "register"
            /\ handlers'[c] # handlers[c]
            /\ \A u \in UserRecords(handlers[c].existingUsers) :
                 toLowerCase(u.email) # toLowerCase(handlers[c].email) )
            => handlers'[c].op = "hash"
       /\ handlers[c].op = "hash" /\ handlers'[c] # handlers[c] =>
            /\ userKey(handlers[c].userId) \in DOMAIN kvStore'
            /\ kvStore'[userKey(handlers[c].userId)].email =
                 toLowerCase(handlers[c].email)
       /\ handlers[c].op = "index" /\ handlers'[c] # handlers[c] =>
            /\ emailKey(handlers[c].email) \in DOMAIN kvStore'
            /\ kvStore'[emailKey(handlers[c].email)] = [string |-> handlers[c].userId]
            /\ handlers'[c].response.status = 200
            /\ handlers'[c].response.body.data.token.userId = handlers[c].userId]_vars

\* the occasions of the fixed set
FixedOccasions == {AllOccasionTags[i] : i \in DOMAIN AllOccasionTags}

\* the rows of the rule table whose condition does not name the occasion
OccasionFreeRows == {1, 2, 3, 4, 7, 11, 12, 13}

\* the rows of RuleTable(occ) of the given places that trigger, in table order
TriggeredAmong(places, occ) ==
  LET table == RuleTable(occ)
      pick == SelectSeq([i \in DOMAIN table |-> i],
                        LAMBDA i : i \in places /\ table[i].on)
  IN  [k \in DOMAIN pick |-> table[pick[k]]]

Clamp(sum) == IF sum > 1000 THEN 1000 ELSE IF sum < 0 THEN 0 ELSE sum

\* C21 as stated: for an occasion outside the fixed set the score of
\* calculateColorCompatibility is the clamped sum of the base score and the
\* deltas of the occasion-independent rules alone.
C21_Original ==
  pc = "scored" /\ occasion \notin FixedOccasions =>
    colorResult[1].score =
      Clamp(500 + SumOfDeltas(TriggeredAmong(OccasionFreeRows, occasion)))

\* C21: for an occasion outside the fixed set calculateColorCompatibility
\* returns a result where the complementary bonus and the three contrast
\* rules do not trigger, while the complementary penalty of -0.1 triggers
\* whenever top and bottom are complementary: the score is the clamped sum of
\* 0.5, the deltas of the occasion-independent rules and that penalty, and
\* the explanation holds the sentences of those rules only.
C21_UnknownOccasion ==
  pc = "scored" /\ occasion \notin FixedOccasions =>
    LET complementary ==
          areComplementary(hexToHsv(colors[1]), hexToHsv(colors[2]))
        places == OccasionFreeRows \cup (IF complementary THEN {6} ELSE {})
        rows == TriggeredAmong(places, "travel")
    IN  /\ colorResult[1].score = Clamp(500 + SumOfDeltas(rows))
        /\ colorResult[1].explanation =
             IF rows = <<>> THEN "Standard color combination" ELSE Sentences(rows)

\* "Formal" with complementary colors of low contrast: the penalty is
\* taken, and the low-contrast bonus of "formal" is not given
C21_Witness ==
  /\ pc = "scored"
  /\ occasion = "Formal"
  /\ areComplementary(hexToHsv(colors[1]), hexToHsv(colors[2]))
  /\ RuleTable("formal")[8].on
  /\ colorResult[1].score =
       500 + SumOfDeltas(TriggeredAmong(OccasionFreeRows, occasion)) - 100
  /\ colorResult[1].score
       # calculateColorCompatibility(colors[1], colors[2], colors[3], "formal").score

\* the rationale sentences of the rules that calculateColorCompatibility
\* triggers for the colors of the state and occ
Reasons(occ) ==
  LET rules == colorRules(hexToHsv(colors[1]), hexToHsv(colors[2]),
                          hexToHsv(colors[3]), occ)
  IN  {rules[i].reason : i \in DOMAIN rules}

ComplementarySentences ==
  {"Complementary colors add visual interest",
   "Complementary colors may be too bold for this occasion"}

EligibleBlazers(occ) == Eligible(LayerCategories, occ)

\* C23: in the result of one generateOutfits call every outfit has a layer
\* if and only if the occasion is formal or work (letter case ignored, as
\* for eligibility) and the catalog has an eligible blazer; the layer is then
\* the first eligible blazer in catalog order, the same on every outfit; for
\* every other occasion no outfit has a layer.
C23_Layer ==
  pc = "generated" =>
    LET present == /\ toLowerCase(occasion) \in {"formal", "work"}
                   /\ EligibleBlazers(occasion) # {}
    IN  \A i \in DOMAIN outfits :
          /\ outfits[i].layer # <<>> <=> present
          /\ present =>
               outfits[i].layer =
                 <<items[CHOOSE b \in EligibleBlazers(occasion) :
                           \A q \in EligibleBlazers(occasion) : b <= q]>>
          /\ outfits[i].layer = outfits[1].layer

\* two eligible blazers after one that is not eligible: the layer of the
\* outfit is the second blazer of the catalog
C23_Witness ==
  /\ pc = "generated"
  /\ outfits # <<>>
  /\ Cardinality(EligibleBlazers(occasion)) >= 1
  /\ \E b \in DOMAIN items :
       /\ items[b].category = "blazer"
       /\ b \notin EligibleBlazers(occasion)
       /\ \A q \in EligibleBlazers(occasion) : b < q
  /\ outfits[1].layer # <<>>
  /\ outfits[1].layer[1].id \in EligibleBlazers(occasion)

\* the occasion gate of the specification on catalog places (t, b, f)
PassesGate(t, b, f, occ) ==
  /\ toLowerCase(occ) = "formal" =>
       /\ items[f].category = "formal_shoes"
       /\ items[t].category # "tshirt"
       /\ items[b].category # "jeans"
  /\ toLowerCase(occ) = "work" =>
       ~(/\ items[f].category = "sneakers"
         /\ \A k \in DOMAIN items[f].occasionTags : items[f].occasionTags[k] # "work")

\* the (top, bottom, footwear) places of eligible items that pass the gate
EligibleTriples(occ) ==
  {triple \in Eligible(TopCategories, occ) \X Eligible(BottomCategories, occ)
                \X Eligible(FootwearCategories, occ) :
     PassesGate(triple[1], triple[2], triple[3], occ)}

\* C24: without truncation (maxOutfits at its default, above the number of
\* combinations) generateOutfits returns exactly one combination for each
\* triple of eligible items of the three slot classes that passes the
\* occasion gate, and no other; for an occasion other than formal and work
\* their number is |eligible tops| x |eligible bottoms| x |eligible
\* footwear|; the three items of a combination are distinct catalog items.
C24_CrossProduct ==
  (pc = "generated" /\ maxOutfits = DefaultMaxOutfits) =>
    /\ {EnumKey(outfits[i]) : i \in DOMAIN outfits} = EligibleTriples(occasion)
    /\ Len(outfits) = Cardinality(EligibleTriples(occasion))
    /\ \A i \in DOMAIN outfits :
         /\ outfits[i].top = items[outfits[i].top.id]
         /\ outfits[i].bottom = items[outfits[i].bottom.id]
         /\ outfits[i].footwear = items[outfits[i].footwear.id]
         /\ outfits[i].top.id # outfits[i].bottom.id
         /\ outfits[i].top.id # outfits[i].footwear.id
         /\ outfits[i].bottom.id # outfits[i].footwear.id
    /\ toLowerCase(occasion) \notin {"formal", "work"} =>
         Len(outfits) = Cardinality(Eligible(TopCategories, occasion))
                          * Cardinality(Eligible(BottomCategories, occasion))
                          * Cardinality(Eligible(FootwearCategories, occasion))

\* a casual request over a top, a bottom that is not eligible, a bottom
\* that is, and one footwear item: one combination
C24_Witness ==
  /\ pc = "generated" /\ maxOutfits = DefaultMaxOutfits /\ occasion = "casual"
  /\ Len(outfits) = 1
  /\ \E b \in DOMAIN items :
       /\ items[b].category \in BottomCategories
       /\ b \notin Eligible(BottomCategories, occasion)
       /\ b < outfits[1].bottom.id

\* C25: calculateFabricCompatibility returns the value of the first rule
\* that matches, in this order, and never a sum: formal (letter case
\* ignored) with top and bottom fabric both cotton or wool gives 0.25; casual
\* or college with a denim bottom gives 0.2; a cotton top with a wool bottom
\* gives 0.2 for any occasion; otherwise 0.15.
C25_FabricPriority ==
  pc = "fabric" =>
    LET occ == toLowerCase(arg.occasion)
        top == arg.top.fabric
        bottom == arg.bottom.fabric
        formalRule == occ = "formal" /\ {top, bottom} \subseteq {"cotton", "wool"}
        denimRule == occ \in {"casual", "college"} /\ bottom = "denim"
        accentRule == top = "cotton" /\ bottom = "wool"
    IN  /\ formalRule => ret[1] = 250
        /\ ~formalRule /\ denimRule => ret[1] = 200
        /\ ~formalRule /\ ~denimRule /\ accentRule => ret[1] = 200
        /\ ~formalRule /\ ~denimRule /\ ~accentRule => ret[1] = 150
        /\ ret[1] \in {150, 200, 250}

\* formal with a cotton top and a wool bottom: two rules match, and the
\* value of the first is returned
C25_Witness ==
  /\ pc = "fabric"
  /\ arg.occasion = "formal"
  /\ arg.top.fabric = "cotton" /\ arg.bottom.fabric = "wool"
  /\ ret = <<250>>

\* the table of the footwear advice for a top color, a bottom color and an
\* occasion
ShoeTable(top, bottom, occ) ==
  IF occ \in {"formal", "work"}
    THEN IF Below(bottom.v, 30, 1) THEN "Black leather shoes for formal elegance"
         ELSE IF bottom.h \in 20..40 THEN "Brown leather shoes complement earth tones"
         ELSE "Dark leather shoes maintain professionalism"
  ELSE IF occ \in {"casual", "college"}
    THEN IF isNeutral(top) /\ isNeutral(bottom) THEN "White sneakers add a fresh touch"
         ELSE IF Above(top.s, 60, 1) \/ Above(bottom.s, 60, 1)
           THEN "Neutral sneakers balance bold colors"
         ELSE "Casual sneakers complete the look"
  ELSE IF occ = "party"
    THEN IF Below(top.v, 40, 1) /\ Below(bottom.v, 40, 1)
           THEN "Bold sneakers or boots add personality"
         ELSE "Statement footwear to stand out"
  ELSE "Versatile neutral footwear"

\* C26: the shoeRecommendation of every outfit is the entry of the table
\* for the top color, the bottom color and the occasion, whatever the
\* footwear item and the scores of the outfit are; every occasion string
\* other than formal, work, casual, college and party gives "Versatile
\* neutral footwear".
C26_ShoeRecommendation ==
  pc = "generated" =>
    \A i \in DOMAIN outfits :
      /\ outfits[i].shoeRecommendation =
           ShoeTable(hexToHsv(outfits[i].top.primaryColor),
                     hexToHsv(outfits[i].bottom.primaryColor), occasion)
      /\ occasion \notin {"formal", "work", "casual", "college", "party"} =>
           outfits[i].shoeRecommendation = "Versatile neutral footwear"

\* a formal outfit with a bottom of an earth tone and footwear that is not
\* neutral: the brown-leather message
C26_Witness ==
  /\ pc = "generated" /\ occasion = "formal"
  /\ outfits # <<>>
  /\ ~isNeutral(hexToHsv(outfits[1].footwear.primaryColor))
  /\ outfits[1].shoeRecommendation = "Brown leather shoes complement earth tones"

\* C27: for an RGB triple with integer channels in 0..255 rgbToHsv returns
\* an integer hue h with 0 <= h < 360, a saturation in [0,100] and a value
\* in [0,100]; the hue is 0 when the three channels are equal, and it is
\* wrapped into 300..359 (or is 0) when red is the maximum and g < b. The
\* bounds hold for either rounding of a product that is exactly half way.
C27_HsvRange ==
  pc = "converted" =>
    LET hsv == ret[1]
    IN  /\ hsv.h \in 0..359
        /\ hsv.s.d > 0 /\ hsv.s.n >= 0 /\ hsv.s.n <= 100 * hsv.s.d
        /\ hsv.v.d > 0 /\ hsv.v.n >= 0 /\ hsv.v.n <= 100 * hsv.v.d
        /\ arg.r = arg.g /\ arg.g = arg.b => hsv.h = 0
        /\ arg.r >= arg.g /\ arg.g < arg.b /\ arg.r >= arg.b =>
             hsv.h \in 300..359 \cup {0}

\* red is the maximum and g < b: the remainder by 6 is negative, and the hue
\* is returned above 300
C27_Witness ==
  /\ pc = "converted"
  /\ arg.r > arg.b /\ arg.b > arg.g
  /\ ret[1].h \in 300..359

\* C28: after any sequence of POST /wardrobe, PUT /wardrobe/:id,
\* DELETE /wardrobe/:id and /seed-data requests, every wardrobe item in the
\* store has a category that is one of the eight of validCategories.
C28_ValidCategories ==
  \A key \in DOMAIN kvStore :
    key[1] = "wardrobe" => includes(validCategories, kvStore[key].category)

\* C29: once DELETE /wardrobe/:id has deleted an item and answered success,
\* its key is never in the store again, whatever the interleaving with PUT
\* requests on the same id. Every id given out is stored at once, so a
\* wardrobe key that is absent and whose id was already given out is a
\* deleted one: the only wardrobe key a step may add to the store is that of
\* the id given out in that step.
C29_DeletedStaysDeleted ==
  [][\A key \in DOMAIN kvStore' \ DOMAIN kvStore :
       key[1] = "wardrobe" => uuids' = uuids + 1 /\ key[3] = randomUUID(uuids)]_vars

\* the (top, bottom, footwear, layer) tuples of an array of outfits
ItemTuples(array) ==
  {<<array[i].top, array[i].bottom, array[i].footwear, array[i].layer>> :
     i \in DOMAIN array}

\* the occasion strings that differ from occ in letter case at most
SameLetters(occ) == {o \in CaseOccasions : toLowerCase(o) = toLowerCase(occ)}

\* C30: for two occasion strings that differ only in letter case,
\* generateOutfits over the same catalog, with maxOutfits above the number of
\* combinations, returns the same set of (top, bottom, footwear, layer)
\* tuples, and as many outfits.
C30_CaseInsensitive ==
  pc = "generated" =>
    \A occ \in SameLetters(occasion) :
      LET other == generateOutfits(items, occ, maxOutfits)
      IN  /\ Len(outfits) < maxOutfits
          /\ ItemTuples(other) = ItemTuples(outfits)
          /\ Len(other) = Len(outfits)

\* a request for "Work" that returns one outfit with a blazer, whose score
\* is not the one a request for "work" gives it
C30_Witness ==
  /\ pc = "generated" /\ occasion = "Work"
  /\ Len(outfits) = 1
  /\ outfits[1].layer # <<>>
  /\ outfits[1].compatibilityScore #
       generateOutfits(items, "work", maxOutfits)[1].compatibilityScore

====
